---- MODULE Spec2Model ----
(***************************************************************************)
(* GPX stop-based peak detection of the GpxAnalyzer component             *)
(* (frontend/src/components/GpxAnalyzer.jsx): parseGPX, the stop           *)
(* segmenter, the stop clusterer, the candidate scorer and the ranker,     *)
(* together with the component state the upload handler writes.            *)
(*                                                                         *)
(* Numbers.  A JavaScript number is carried as an exact fraction           *)
(* [n |-> numerator, d |-> denominator] in lowest terms with d > 0.        *)
(* d = 0 is NaN.  null and undefined are two further values of the same    *)
(* record shape (d = -1, d = -2), so that a field that may hold a number   *)
(* or null is always a record.  Floating-point rounding is not modelled.   *)
(*                                                                         *)
(* Geometry.  Every track of the input families runs along one meridian    *)
(* (all lon attributes equal).  There the haversine formula reduces to     *)
(* R * |dphi|, so lat is carried in metres of arc along the meridian and   *)
(* calculateDistance is the absolute difference of the two lat values.     *)
(*                                                                         *)
(* Time.  A Date is carried as its millisecond value; a missing <time>     *)
(* node is null.                                                           *)
(*                                                                         *)
(* Indices.  TLA+ sequences are 1-based; every index the program stores    *)
(* (point.index, startIndex, endIndex, cluster.indices, cluster.index,     *)
(* selectedPeakIndices) keeps its 0-based JavaScript value.                *)
(***************************************************************************)
EXTENDS Integers, Sequences, FiniteSets, TLC

VARIABLES
    settings,             \* useState settings object
    gpxData,              \* useState gpxData: GpxNull or the point array
    detectedPeaks,        \* useState detectedPeaks
    selectedPeakIndices,  \* useState selectedPeakIndices
    loading,              \* useState loading
    alertMsg,             \* text of the last alert() shown, "" when none
    file,                 \* event.target.files[0] of the file input
    pc,                   \* position of handleFileUpload / detectStopBasedPeaks
    points,               \* parseGPX result = argument of detectStopBasedPeaks
    i,                    \* loop variable of the segmenter scan (0-based)
    currentStop,          \* the segmenter's open-stop accumulator
    stopSegments,         \* the segmenter's output array
    clusters,             \* the clusterer's array, scored and sorted in place
    runCount,             \* number of uploads started (bounded by MaxRuns)
    lastRun,              \* history: input and returned list of the last finished run
    onPeaksDetected       \* the call of the onPeaksDetected prop, NotCalled before it

vars == << settings, gpxData, detectedPeaks, selectedPeakIndices, loading,
           alertMsg, file, pc, points, i, currentStop, stopSegments,
           clusters, runCount, lastRun, onPeaksDetected >>

---------------------------------------------------------------------------
(* JavaScript numbers                                                      *)

Abs(x) == IF x < 0 THEN -x ELSE x

RECURSIVE GCD(_, _)
GCD(a, b) == IF b = 0 THEN a ELSE GCD(b, a % b)

NaN == [n |-> 0, d |-> 0]
Null == [n |-> 0, d |-> -1]
Undefined == [n |-> 0, d |-> -2]

\* the fraction n/d in lowest terms; 0/0 and x/0 are carried as NaN (no
\* division by zero is reached: every divisor is a positive length, a
\* positive time difference or a non-zero literal)
R(n, d) ==
    IF d = 0 THEN NaN
    ELSE LET g == GCD(Abs(n), Abs(d))
             s == IF d < 0 THEN -1 ELSE 1
         IN  [n |-> (s * n) \div g, d |-> (s * d) \div g]

Int2Num(k) == [n |-> k, d |-> 1]
Zero == Int2Num(0)

IsNaN(x) == x.d = 0

\* ToNumber: null -> 0, undefined -> NaN, a Date -> its millisecond value
ToNumber(x) == IF x = Null THEN Zero ELSE IF x = Undefined THEN NaN ELSE x

NumAdd(a, b) ==
    LET x == ToNumber(a)  y == ToNumber(b)
    IN  IF IsNaN(x) \/ IsNaN(y) THEN NaN ELSE R(x.n * y.d + y.n * x.d, x.d * y.d)

NumSub(a, b) ==
    LET x == ToNumber(a)  y == ToNumber(b)
    IN  IF IsNaN(x) \/ IsNaN(y) THEN NaN ELSE R(x.n * y.d - y.n * x.d, x.d * y.d)

NumMul(a, b) ==
    LET x == ToNumber(a)  y == ToNumber(b)
    IN  IF IsNaN(x) \/ IsNaN(y) THEN NaN ELSE R(x.n * y.n, x.d * y.d)

NumDiv(a, b) ==
    LET x == ToNumber(a)  y == ToNumber(b)
    IN  IF IsNaN(x) \/ IsNaN(y) THEN NaN ELSE R(x.n * y.d, x.d * y.n)

\* a < b, a <= b, a >= b, a > b: every comparison with NaN is false
NumLt(a, b) ==
    LET x == ToNumber(a)  y == ToNumber(b)
    IN  ~IsNaN(x) /\ ~IsNaN(y) /\ x.n * y.d < y.n * x.d

NumLe(a, b) ==
    LET x == ToNumber(a)  y == ToNumber(b)
    IN  ~IsNaN(x) /\ ~IsNaN(y) /\ x.n * y.d <= y.n * x.d

NumGe(a, b) == NumLe(b, a)

NumGt(a, b) == NumLt(b, a)

\* Math.abs, Math.min, Math.max, Math.floor
MathAbs(a) ==
    LET x == ToNumber(a) IN IF IsNaN(x) THEN NaN ELSE [n |-> Abs(x.n), d |-> x.d]

MathMin(a, b) ==
    IF IsNaN(ToNumber(a)) \/ IsNaN(ToNumber(b)) THEN NaN
    ELSE IF NumLe(a, b) THEN ToNumber(a) ELSE ToNumber(b)

MathMax(a, b) ==
    IF IsNaN(ToNumber(a)) \/ IsNaN(ToNumber(b)) THEN NaN
    ELSE IF NumGe(a, b) THEN ToNumber(a) ELSE ToNumber(b)

\* Math.floor of a non-NaN number, as an integer (\div rounds down)
MathFloor(a) == a.n \div a.d

\* x || 0 on a number-or-null: null, NaN and 0 are falsy
OrZero(x) == IF x = Null \/ x = Undefined \/ IsNaN(x) \/ x.n = 0 THEN Zero ELSE x

\* truthiness of a Date-or-null (every Date object is truthy)
HasTime(t) == t # Null

\* s.reduce((sum, e) => sum + e, 0); the additions are exact, so their
\* grouping is free: the two halves are summed apart to keep the nesting of
\* the evaluation shallow on long tracks
RECURSIVE SumSeq(_)
SumSeq(s) ==
    IF s = << >> THEN Zero
    ELSE IF Len(s) = 1 THEN NumAdd(Zero, s[1])
    ELSE NumAdd(SumSeq(SubSeq(s, 1, Len(s) \div 2)),
                SumSeq(SubSeq(s, Len(s) \div 2 + 1, Len(s))))

\* Math.max(...s) for a non-empty s
RECURSIVE MaxSeq(_)
MaxSeq(s) == IF Len(s) = 1 THEN ToNumber(s[1])
             ELSE MathMax(MaxSeq(SubSeq(s, 1, Len(s) \div 2)),
                          MaxSeq(SubSeq(s, Len(s) \div 2 + 1, Len(s))))

\* Array.prototype.map
MapSeq(s, F(_)) == [k \in 1..Len(s) |-> F(s[k])]

---------------------------------------------------------------------------
(* Settings (useState, lines 26-34)                                        *)

DefaultSettings ==
    [ stopSpeedThreshold   |-> R(1, 2),
      clusterDistance      |-> Int2Num(50),
      clusterTimeGap       |-> Int2Num(5),
      minStopDuration      |-> Int2Num(1),
      prominenceRadius     |-> Int2Num(100),
      prominenceTimeWindow |-> Int2Num(10),
      elevationPercentile  |-> Int2Num(80) ]

---------------------------------------------------------------------------
(* Input files                                                             *)
(* A file is [kind, trkpts]: kind "gpx" is well-formed XML whose <trkpt>   *)
(* elements are trkpts, "malformed" makes DOMParser return a parsererror   *)
(* document, "unreadable" makes the FileReader fire onerror.  A trkpt is   *)
(* [lat, lon, ele, time]; an absent attribute or child node is Null.       *)

MaxSegPoints == 5
MaxClusterPoints == 8
MaxScorePoints == 5
MaxRerunPoints == 5
MaxUiPoints == 5
MaxPromPoints == 4
MaxRuns == 2
MaxVisits == 3
MaxNeighborPoints == 5

\* one step of a walk: the next fix lies dLat metres further north and dt
\* milliseconds later; hasLat / hasTime say whether the trkpt carries the
\* lat attribute / the <time> node
Step(dLat, dt, hasLat, hasTime) ==
    [dLat |-> dLat, dt |-> dt, hasLat |-> hasLat, hasTime |-> hasTime]

Stay   == Step(0, 30000, TRUE, TRUE)      \* 30 s at rest: speed 0
Walk   == Step(30, 30000, TRUE, TRUE)     \* 30 m in 30 s: 1 m/s
Pause  == Step(0, 360000, TRUE, TRUE)     \* 6 min at rest: speed 0
Hop    == Step(240, 360000, TRUE, TRUE)   \* 240 m in 6 min: 2/3 m/s
Stroll == Step(15, 30000, TRUE, TRUE)     \* 15 m in 30 s: exactly 1/2 m/s
Back   == Step(30, -30000, TRUE, TRUE)    \* 30 m while the clock steps back 30 s
NoTime == Step(0, 30000, TRUE, FALSE)     \* fix without <time>
NoLat  == Step(0, 30000, FALSE, TRUE)     \* fix without lat attribute
Drift  == Step(240, 3600000, TRUE, TRUE)  \* 240 m in 60 min: 1/15 m/s
Out    == Step(60, 30000, TRUE, TRUE)     \* 60 m in 30 s: 2 m/s
In     == Step(-60, 30000, TRUE, TRUE)    \* 60 m back in 30 s: 2 m/s

RECURSIVE PosAfter(_, _)
PosAfter(steps, k) == IF k = 0 THEN 0 ELSE PosAfter(steps, k - 1) + steps[k].dLat

RECURSIVE TimeAfter(_, _)
TimeAfter(steps, k) == IF k = 0 THEN 0 ELSE TimeAfter(steps, k - 1) + steps[k].dt

\* the trkpt list of a walk: the first fix at lat 0, time 0, then one fix
\* per step; eles[k] is the <ele> value of fix k (Null: no <ele> node)
BuildTrack(steps, eles) ==
    [k \in 1..(Len(steps) + 1) |->
        [ lat  |-> IF k > 1 /\ ~steps[k - 1].hasLat THEN Null
                   ELSE Int2Num(PosAfter(steps, k - 1)),
          lon  |-> Zero,
          ele  |-> eles[k],
          time |-> IF k > 1 /\ ~steps[k - 1].hasTime THEN Null
                   ELSE Int2Num(TimeAfter(steps, k - 1)) ] ]

GpxFile(trkpts) == [kind |-> "gpx", trkpts |-> trkpts]
MalformedFile == [kind |-> "malformed", trkpts |-> << >>]
UnreadableFile == [kind |-> "unreadable", trkpts |-> << >>]
NoFile == [kind |-> "none", trkpts |-> << >>]

\* the step kinds and <ele> values of the three input families
SegSteps == {Stay, Walk, Stroll, Back, NoTime, NoLat}
SegEles == {Int2Num(100)}
ClusterSteps == {Stay, Walk, Pause}
ClusterEles == {Int2Num(100)}
ScoreSteps == {Pause, Hop}
ScoreEles == {Null, Int2Num(100), Int2Num(200)}
RerunSteps == {Pause, Hop}
RerunEles == {Null, Int2Num(100)}
PromSteps == {Pause, Hop, Drift}
PromEles == {Null, Int2Num(100), Int2Num(200)}
NeighborSteps == {Pause, Out, NoTime}
NeighborEles == {Int2Num(100), Int2Num(200)}
UiSteps == {Pause, Hop}
UiEles == {Int2Num(100)}

---------------------------------------------------------------------------
(* parseGPX (lines 36-99) and calculateDistance (lines 101-114)            *)

\* parseFloat of an attribute value or text content; parseFloat(null) is NaN
parseFloat(text) == IF text = Null THEN NaN ELSE text

\* haversine along a meridian, lat in metres of arc; NaN in, NaN out
calculateDistance(lat1, lon1, lat2, lon2) ==
    IF IsNaN(lat1) \/ IsNaN(lon1) \/ IsNaN(lat2) \/ IsNaN(lon2) THEN NaN
    ELSE MathAbs(NumSub(lat2, lat1))

\* lines 53-71: the points as pushed by trkpts.forEach
PushedPoints(trkpts) ==
    [k \in 1..Len(trkpts) |->
        [ index    |-> k - 1,
          lat      |-> parseFloat(trkpts[k].lat),
          lon      |-> parseFloat(trkpts[k].lon),
          ele      |-> IF trkpts[k].ele # Null THEN parseFloat(trkpts[k].ele) ELSE Null,
          time     |-> trkpts[k].time,
          distance |-> Zero,
          speed    |-> Zero ] ]

\* lines 76-81: dist between point k-1 and point k (1-based k >= 2)
StepDist(ps, k) ==
    calculateDistance(ps[k - 1].lat, ps[k - 1].lon, ps[k].lat, ps[k].lon)

\* lines 74, 82: totalDistance after the loop body for point k, the sum
\* of the dist of the points 2..k
TotalDistance(ps, k) == SumSeq([j \in 1..(k - 1) |-> StepDist(ps, j + 1)])

\* lines 85-88: the speed written to point k; 0 (line 69) when not written
PointSpeed(ps, k) ==
    IF k > 1 /\ HasTime(ps[k].time) /\ HasTime(ps[k - 1].time)
    THEN LET timeDiff == NumDiv(NumSub(ps[k].time, ps[k - 1].time), Int2Num(1000))
         IN  IF NumGt(timeDiff, Zero) THEN NumDiv(StepDist(ps, k), timeDiff) ELSE Zero
    ELSE Zero

\* lines 73-89
WithDistanceAndSpeed(ps) ==
    [k \in 1..Len(ps) |->
        IF k = 1 THEN ps[k]
        ELSE [ps[k] EXCEPT !.distance = TotalDistance(ps, k),
                           !.speed = PointSpeed(ps, k)] ]

\* the value the promise resolves with (line 91)
parseGPX(f) == WithDistanceAndSpeed(PushedPoints(f.trkpts))

---------------------------------------------------------------------------
(* detectStopBasedPeaks, step 1: stop segments (lines 120-164)             *)

\* currentStop = null
NoStop == [startIndex |-> -1, points |-> << >>]

\* variant: the object pushed with endIndex one past the last point of the run
MakeSegmentEndingPastRun(cs, endIndex) ==
    [ startIndex |-> cs.startIndex,
      points     |-> cs.points,
      endIndex   |-> endIndex + 1,
      startTime  |-> cs.points[1].time,
      endTime    |-> cs.points[Len(cs.points)].time,
      avgLat     |-> NumDiv(SumSeq(MapSeq(cs.points, LAMBDA p : p.lat)),
                            Int2Num(Len(cs.points))),
      avgLon     |-> NumDiv(SumSeq(MapSeq(cs.points, LAMBDA p : p.lon)),
                            Int2Num(Len(cs.points))),
      avgEle     |-> NumDiv(SumSeq(MapSeq(cs.points, LAMBDA p : OrZero(p.ele))),
                            Int2Num(Len(cs.points))),
      maxEle     |-> MaxSeq(MapSeq(cs.points, LAMBDA p : OrZero(p.ele))) ]

\* the object pushed at lines 138-147 and 154-163
MakeSegment(cs, endIndex) ==
    [ startIndex |-> cs.startIndex,
      points     |-> cs.points,
      endIndex   |-> endIndex,
      startTime  |-> cs.points[1].time,
      endTime    |-> cs.points[Len(cs.points)].time,
      avgLat     |-> NumDiv(SumSeq(MapSeq(cs.points, LAMBDA p : p.lat)),
                            Int2Num(Len(cs.points))),
      avgLon     |-> NumDiv(SumSeq(MapSeq(cs.points, LAMBDA p : p.lon)),
                            Int2Num(Len(cs.points))),
      avgEle     |-> NumDiv(SumSeq(MapSeq(cs.points, LAMBDA p : OrZero(p.ele))),
                            Int2Num(Len(cs.points))),
      maxEle     |-> MaxSeq(MapSeq(cs.points, LAMBDA p : OrZero(p.ele))) ]

\* variant: <= in place of < at line 127
IsStopPointInclusive(point, cfg) == NumLe(point.speed, cfg.stopSpeedThreshold)

\* line 127
IsStopPoint(point, cfg) == NumLt(point.speed, cfg.stopSpeedThreshold)

\* variant: lines 128-135 opening a new accumulator at every point below
\* the threshold
ExtendStopAnew(cs, idx, point) == [startIndex |-> idx, points |-> << point >>]

\* lines 128-135: the accumulator after a point below the threshold
ExtendStop(cs, idx, point) ==
    IF cs = NoStop THEN [startIndex |-> idx, points |-> << point >>]
    ELSE [cs EXCEPT !.points = Append(cs.points, point)]

\* variant: the length test of lines 137 and 153 left out
EmitsAnyOpenStop(cs) == cs # NoStop

\* lines 137, 153: currentStop && currentStop.points.length >= 2
Emits(cs) == cs # NoStop /\ Len(cs.points) >= 2

\* lines 137-148 and 153-164: stopSegments after closing cs at endIndex
CloseStop(segs, cs, endIndex) ==
    IF Emits(cs) THEN Append(segs, MakeSegment(cs, endIndex)) ELSE segs

---------------------------------------------------------------------------
(* detectStopBasedPeaks, step 2: clusters (lines 166-214)                  *)

\* lines 173-176; the fields assigned later are undefined until then
\* (index holds an integer once set, -1 stands for undefined)
NewCluster(seg, idx) ==
    [ segments |-> << seg >>, indices |-> << idx >>,
      avgLat |-> Undefined, avgLon |-> Undefined, avgEle |-> Undefined,
      maxEle |-> Undefined, duration |-> Undefined,
      startTime |-> Undefined, endTime |-> Undefined,
      prominence |-> Undefined, index |-> -1, score |-> Undefined,
      durationScore |-> Undefined, elevationScore |-> Undefined,
      prominenceScore |-> Undefined,
      lat |-> Undefined, lon |-> Undefined, ele |-> Undefined ]

\* lines 182-187
SegmentDistance(a, b) == calculateDistance(a.avgLat, a.avgLon, b.avgLat, b.avgLon)

\* line 189, in minutes
SegmentTimeDiff(seed, other) ==
    NumDiv(MathAbs(NumSub(other.startTime, seed.endTime)), Int2Num(1000 * 60))

\* variant: && in place of || at line 191
MergesOnBoth(seed, other, cfg) ==
    /\ NumLe(SegmentDistance(seed, other), cfg.clusterDistance)
    /\ NumLe(SegmentTimeDiff(seed, other), cfg.clusterTimeGap)

\* line 191
Merges(seed, other, cfg) ==
    \/ NumLe(SegmentDistance(seed, other), cfg.clusterDistance)
    \/ NumLe(SegmentTimeDiff(seed, other), cfg.clusterTimeGap)

\* variant: line 194 (used.add(j)) left out
RECURSIVE InnerScanNotMarking(_, _, _, _, _)
InnerScanNotMarking(segs, cfg, seedIdx, j, st) ==
    IF j >= Len(segs) THEN st
    ELSE IF j \in st.used THEN InnerScanNotMarking(segs, cfg, seedIdx, j + 1, st)
    ELSE IF Merges(segs[seedIdx + 1], segs[j + 1], cfg)
         THEN InnerScanNotMarking(segs, cfg, seedIdx, j + 1,
                  [ cluster |-> [st.cluster EXCEPT
                                    !.segments = Append(@, segs[j + 1]),
                                    !.indices = Append(@, j)],
                    used |-> st.used ])
         ELSE InnerScanNotMarking(segs, cfg, seedIdx, j + 1, st)

\* variant: line 183 reading the member added last in place of segment i
RECURSIVE InnerScanAgainstLastMember(_, _, _, _, _)
InnerScanAgainstLastMember(segs, cfg, seedIdx, j, st) ==
    IF j >= Len(segs) THEN st
    ELSE IF j \in st.used THEN InnerScanAgainstLastMember(segs, cfg, seedIdx, j + 1, st)
    ELSE IF Merges(st.cluster.segments[Len(st.cluster.segments)], segs[j + 1], cfg)
         THEN InnerScanAgainstLastMember(segs, cfg, seedIdx, j + 1,
                  [ cluster |-> [st.cluster EXCEPT
                                    !.segments = Append(@, segs[j + 1]),
                                    !.indices = Append(@, j)],
                    used |-> st.used \cup {j} ])
         ELSE InnerScanAgainstLastMember(segs, cfg, seedIdx, j + 1, st)

\* lines 179-196: the inner loop from j on; st = [cluster, used]
RECURSIVE InnerScan(_, _, _, _, _)
InnerScan(segs, cfg, seedIdx, j, st) ==
    IF j >= Len(segs) THEN st
    ELSE IF j \in st.used THEN InnerScan(segs, cfg, seedIdx, j + 1, st)
    ELSE IF Merges(segs[seedIdx + 1], segs[j + 1], cfg)
         THEN InnerScan(segs, cfg, seedIdx, j + 1,
                  [ cluster |-> [st.cluster EXCEPT
                                    !.segments = Append(@, segs[j + 1]),
                                    !.indices = Append(@, j)],
                    used |-> st.used \cup {j} ])
         ELSE InnerScan(segs, cfg, seedIdx, j + 1, st)

\* line 198: cluster.segments.flatMap(s => s.points)
RECURSIVE FlatPoints(_)
FlatPoints(segs) ==
    IF segs = << >> THEN << >>
    ELSE FlatPoints(SubSeq(segs, 1, Len(segs) - 1)) \o segs[Len(segs)].points

\* variant: lines 199-201 dividing by 1000 only, a duration in seconds
TotalDurationInSeconds(segs) ==
    SumSeq(MapSeq(segs, LAMBDA sg :
        NumDiv(NumSub(sg.endTime, sg.startTime), Int2Num(1000))))

\* lines 199-201, in minutes
TotalDuration(segs) ==
    SumSeq(MapSeq(segs, LAMBDA sg :
        NumDiv(NumSub(sg.endTime, sg.startTime), Int2Num(1000 * 60))))

\* variant: line 203 testing only that the cluster lasted at all
MeetsFloorIfPositive(totalDuration, cfg) == NumGt(totalDuration, Zero)

\* line 203
MeetsFloor(totalDuration, cfg) == NumGe(totalDuration, cfg.minStopDuration)

\* variant: line 208 storing the span from the first member's start to the
\* last member's end as the duration
AggregatedOverSpan(cluster) ==
    LET allPoints == FlatPoints(cluster.segments)
        len == Int2Num(Len(allPoints))
    IN  [cluster EXCEPT
            !.avgLat = NumDiv(SumSeq(MapSeq(allPoints, LAMBDA p : p.lat)), len),
            !.avgLon = NumDiv(SumSeq(MapSeq(allPoints, LAMBDA p : p.lon)), len),
            !.avgEle = NumDiv(SumSeq(MapSeq(allPoints, LAMBDA p : OrZero(p.ele))), len),
            !.maxEle = MaxSeq(MapSeq(allPoints, LAMBDA p : OrZero(p.ele))),
            !.duration = NumDiv(NumSub(cluster.segments[Len(cluster.segments)].endTime,
                                       cluster.segments[1].startTime),
                                Int2Num(1000 * 60)),
            !.startTime = cluster.segments[1].startTime,
            !.endTime = cluster.segments[Len(cluster.segments)].endTime ]

\* lines 204-210
Aggregated(cluster) ==
    LET allPoints == FlatPoints(cluster.segments)
        len == Int2Num(Len(allPoints))
    IN  [cluster EXCEPT
            !.avgLat = NumDiv(SumSeq(MapSeq(allPoints, LAMBDA p : p.lat)), len),
            !.avgLon = NumDiv(SumSeq(MapSeq(allPoints, LAMBDA p : p.lon)), len),
            !.avgEle = NumDiv(SumSeq(MapSeq(allPoints, LAMBDA p : OrZero(p.ele))), len),
            !.maxEle = MaxSeq(MapSeq(allPoints, LAMBDA p : OrZero(p.ele))),
            !.duration = TotalDuration(cluster.segments),
            !.startTime = cluster.segments[1].startTime,
            !.endTime = cluster.segments[Len(cluster.segments)].endTime ]

\* lines 170-214: the outer loop from seedIdx on; st = [clusters, used]
RECURSIVE ClusterLoop(_, _, _, _)
ClusterLoop(segs, cfg, seedIdx, st) ==
    IF seedIdx >= Len(segs) THEN st
    ELSE IF seedIdx \in st.used THEN ClusterLoop(segs, cfg, seedIdx + 1, st)
    ELSE LET inner == InnerScan(segs, cfg, seedIdx, seedIdx + 1,
                          [ cluster |-> NewCluster(segs[seedIdx + 1], seedIdx),
                            used |-> st.used \cup {seedIdx} ])
             kept == IF MeetsFloor(TotalDuration(inner.cluster.segments), cfg)
                     THEN Append(st.clusters, Aggregated(inner.cluster))
                     ELSE st.clusters
         IN  ClusterLoop(segs, cfg, seedIdx + 1, [clusters |-> kept, used |-> inner.used])

\* lines 167-214
ClusterStops(segs, cfg) == ClusterLoop(segs, cfg, 0, [clusters |-> << >>, used |-> {}])

---------------------------------------------------------------------------
(* detectStopBasedPeaks, step 3: prominence and score (lines 216-256)      *)

\* [...elevations].sort((a, b) => a - b) on numbers: the stable ascending
\* arrangement; place[k] is the 1-based position element k ends at, after
\* every smaller element and every equal element that came before it
SortAscending(s) ==
    LET place == [k \in 1..Len(s) |->
                     Cardinality({ j \in 1..Len(s) :
                                     NumLt(s[j], s[k]) \/ (s[j] = s[k] /\ j < k) }) + 1]
    IN  [r \in 1..Len(s) |-> s[CHOOSE k \in 1..Len(s) : place[k] = r]]

\* variant: lines 217-219 reading the last element of the sorted list
ElevationThresholdAtTop(pts, cfg) ==
    LET sortedElevations == SortAscending(MapSeq(pts, LAMBDA p : OrZero(p.ele)))
    IN  IF Len(sortedElevations) > 0 THEN sortedElevations[Len(sortedElevations)]
        ELSE Undefined

\* lines 217-219; an index past the end reads undefined
ElevationThreshold(pts, cfg) ==
    LET sortedElevations == SortAscending(MapSeq(pts, LAMBDA p : OrZero(p.ele)))
        at == MathFloor(NumDiv(NumMul(Int2Num(Len(sortedElevations)),
                                      cfg.elevationPercentile), Int2Num(100)))
    IN  IF at < Len(sortedElevations) THEN sortedElevations[at + 1] ELSE Undefined

\* variant: line 222 without the halving
CenterIdxUnhalved(cluster) ==
    cluster.segments[1].startIndex + cluster.segments[Len(cluster.segments)].endIndex

\* line 222
CenterIdx(cluster) ==
    (cluster.segments[1].startIndex
        + cluster.segments[Len(cluster.segments)].endIndex) \div 2

\* lines 224-227
SpatialNeighbors(cluster, pts, cfg) ==
    SelectSeq(pts, LAMBDA p :
        /\ NumLe(calculateDistance(cluster.avgLat, cluster.avgLon, p.lat, p.lon),
                 cfg.prominenceRadius)
        /\ p.index # CenterIdx(cluster))

\* lines 229-233
TemporalNeighbors(cluster, pts, cfg) ==
    SelectSeq(pts, LAMBDA p :
        /\ HasTime(p.time) /\ HasTime(cluster.startTime)
        /\ NumLe(NumDiv(MathAbs(NumSub(p.time, cluster.startTime)), Int2Num(1000 * 60)),
                 cfg.prominenceTimeWindow)
        /\ p.index # CenterIdx(cluster))

\* variant: line 235 without the Set, a point of both lists kept twice
CombinedNeighborsWithRepeats(cluster, pts, cfg) ==
    SpatialNeighbors(cluster, pts, cfg) \o TemporalNeighbors(cluster, pts, cfg)

\* line 235: the Set keeps first occurrences in insertion order
CombinedNeighbors(cluster, pts, cfg) ==
    LET spatial == SpatialNeighbors(cluster, pts, cfg)
        temporal == TemporalNeighbors(cluster, pts, cfg)
    IN  spatial \o SelectSeq(temporal, LAMBDA p :
                       \A k \in 1..Len(spatial) : spatial[k] # p)

\* variant: line 239 falling back to the cluster's maxEle
AvgNeighborEleOrMax(cluster, pts, cfg) ==
    LET neighborElevations ==
            MapSeq(CombinedNeighbors(cluster, pts, cfg), LAMBDA p : OrZero(p.ele))
    IN  IF Len(neighborElevations) > 0
        THEN NumDiv(SumSeq(neighborElevations), Int2Num(Len(neighborElevations)))
        ELSE cluster.maxEle

\* lines 236-239
AvgNeighborEle(cluster, pts, cfg) ==
    LET neighborElevations ==
            MapSeq(CombinedNeighbors(cluster, pts, cfg), LAMBDA p : OrZero(p.ele))
    IN  IF Len(neighborElevations) > 0
        THEN NumDiv(SumSeq(neighborElevations), Int2Num(Len(neighborElevations)))
        ELSE cluster.avgEle

\* line 241
Prominence(cluster, pts, cfg) == NumSub(cluster.maxEle, AvgNeighborEle(cluster, pts, cfg))

\* line 244
DurationScore(duration) ==
    NumMul(MathMin(NumDiv(duration, Int2Num(10)), Int2Num(1)), Int2Num(100))

\* variant: > in place of >= at line 245
ElevationScoreAboveOnly(avgEle, elevationThreshold) ==
    IF NumGt(avgEle, elevationThreshold) THEN Int2Num(100) ELSE Int2Num(50)

\* line 245
ElevationScore(avgEle, elevationThreshold) ==
    IF NumGe(avgEle, elevationThreshold) THEN Int2Num(100) ELSE Int2Num(50)

\* line 246
ProminenceScore(prominence) ==
    NumMul(MathMin(NumDiv(prominence, Int2Num(50)), Int2Num(1)), Int2Num(100))

\* line 248
CompositeScore(durationScore, elevationScore, prominenceScore) ==
    NumDiv(NumAdd(NumAdd(durationScore, elevationScore), prominenceScore), Int2Num(3))

\* lines 221-256: the body of clusters.forEach
ScoreCluster(cluster, pts, cfg) ==
    LET prominence == Prominence(cluster, pts, cfg)
        durationScore == DurationScore(cluster.duration)
        elevationScore == ElevationScore(cluster.avgEle, ElevationThreshold(pts, cfg))
        prominenceScore == ProminenceScore(prominence)
    IN  [cluster EXCEPT
            !.prominence = prominence,
            !.index = CenterIdx(cluster),
            !.score = CompositeScore(durationScore, elevationScore, prominenceScore),
            !.durationScore = durationScore,
            !.elevationScore = elevationScore,
            !.prominenceScore = prominenceScore,
            !.lat = cluster.avgLat,
            !.lon = cluster.avgLon,
            !.ele = cluster.maxEle ]

ScoreClusters(cs, pts, cfg) == [k \in 1..Len(cs) |-> ScoreCluster(cs[k], pts, cfg)]

---------------------------------------------------------------------------
(* detectStopBasedPeaks, ranking (line 258)                                *)

\* variant: a sort that is not stable, an element also moves in front of
\* earlier elements of equal score
RECURSIVE InsertBeforeTies(_, _)
InsertBeforeTies(sorted, x) ==
    IF sorted = << >> THEN << x >>
    ELSE IF NumGe(NumSub(x.score, sorted[Len(sorted)].score), Zero)
         THEN Append(InsertBeforeTies(SubSeq(sorted, 1, Len(sorted) - 1), x),
                     sorted[Len(sorted)])
         ELSE Append(sorted, x)

\* clusters.sort((a, b) => b.score - a.score): Array.prototype.sort is
\* stable; an element moves in front of an earlier one only when the
\* comparator puts the earlier one after it
RECURSIVE InsertByScore(_, _)
InsertByScore(sorted, x) ==
    IF sorted = << >> THEN << x >>
    ELSE IF NumGt(NumSub(x.score, sorted[Len(sorted)].score), Zero)
         THEN Append(InsertByScore(SubSeq(sorted, 1, Len(sorted) - 1), x),
                     sorted[Len(sorted)])
         ELSE Append(sorted, x)

\* variant: a ranking that drops the clusters the table marks score-low
\* (score <= 30, line 548)
RECURSIVE SortByScoreAboveLow(_)
SortByScoreAboveLow(s) ==
    IF s = << >> THEN << >>
    ELSE LET rest == SortByScoreAboveLow(SubSeq(s, 1, Len(s) - 1))
         IN  IF NumGt(s[Len(s)].score, Int2Num(30))
             THEN InsertByScore(rest, s[Len(s)])
             ELSE rest

RECURSIVE SortByScore(_)
SortByScore(s) ==
    IF s = << >> THEN << >>
    ELSE InsertByScore(SortByScore(SubSeq(s, 1, Len(s) - 1)), s[Len(s)])

---------------------------------------------------------------------------
(* The component: handleFileUpload (lines 261-288) running parseGPX and    *)
(* detectStopBasedPeaks (lines 116-259)                                    *)

GpxNull == [isNull |-> TRUE, points |-> << >>]
GpxOf(ps) == [isNull |-> FALSE, points |-> ps]

\* the values of clusterTimeGap and minStopDuration before they were reduced
\* (comments of lines 29-30), reachable through the settings inputs
FormerSettings ==
    [DefaultSettings EXCEPT !.clusterTimeGap = Int2Num(15), !.minStopDuration = Int2Num(3)]

NoRun == [done |-> FALSE, file |-> NoFile, settings |-> DefaultSettings, peaks |-> << >>]

\* the onPeaksDetected prop has not been called
NotCalled == [called |-> FALSE, peaks |-> << >>]

\* variant: line 265 (setLoading(true)) left out
handleFileUploadWithoutLoading(f) ==
    /\ ~loading /\ gpxData.isNull
    /\ f # NoFile
    /\ runCount < MaxRuns
    /\ file' = f
    /\ alertMsg' = ""
    /\ pc' = "reading"
    /\ runCount' = runCount + 1
    /\ UNCHANGED << settings, loading, gpxData, detectedPeaks, selectedPeakIndices, points,
                    i, currentStop, stopSegments, clusters, lastRun, onPeaksDetected >>

\* lines 261-265, 97, 436, 493-502: a file is chosen in the file input,
\* which is rendered while gpxData is null and disabled while loading;
\* loading is set and the read starts
handleFileUpload(f) ==
    /\ ~loading /\ gpxData.isNull
    /\ f # NoFile
    /\ runCount < MaxRuns
    /\ loading' = TRUE
    /\ file' = f
    /\ alertMsg' = ""
    /\ pc' = "reading"
    /\ runCount' = runCount + 1
    /\ UNCHANGED << settings, gpxData, detectedPeaks, selectedPeakIndices, points,
                    i, currentStop, stopSegments, clusters, lastRun, onPeaksDetected >>

\* variant: stopSegments declared outside detectStopBasedPeaks, so that
\* line 121 does not start from an empty array
ReaderOnloadKeepingSegments ==
    /\ pc = "reading" /\ file.kind = "gpx"
    /\ points' = parseGPX(file)
    /\ gpxData' = GpxOf(points')
    /\ currentStop' = NoStop
    /\ i' = 0
    /\ pc' = "scan"
    /\ UNCHANGED << settings, detectedPeaks, selectedPeakIndices, loading, alertMsg,
                    file, stopSegments, clusters, runCount, lastRun, onPeaksDetected >>

\* lines 39-91, 267-268, 116-122: reader.onload on well-formed XML resolves
\* with the points, the handler stores them and detectStopBasedPeaks starts
ReaderOnload ==
    /\ pc = "reading" /\ file.kind = "gpx"
    /\ points' = parseGPX(file)
    /\ gpxData' = GpxOf(points')
    /\ stopSegments' = << >>
    /\ currentStop' = NoStop
    /\ i' = 0
    /\ pc' = "scan"
    /\ UNCHANGED << settings, detectedPeaks, selectedPeakIndices, loading, alertMsg,
                    file, clusters, runCount, lastRun, onPeaksDetected >>

\* variant: the parsererror test of lines 44-48 left out, the document
\* without trkpt elements resolves with no points and the run goes on
ReaderOnloadIgnoringParseError ==
    /\ pc = "reading" /\ file.kind = "malformed"
    /\ points' = << >>
    /\ gpxData' = GpxOf(points')
    /\ stopSegments' = << >>
    /\ currentStop' = NoStop
    /\ i' = 0
    /\ pc' = "scan"
    /\ UNCHANGED << settings, detectedPeaks, selectedPeakIndices, loading, alertMsg,
                    file, clusters, runCount, lastRun, onPeaksDetected >>

\* lines 44-48, 283-287: parsererror document -> reject -> catch, finally
ReaderOnloadParseError ==
    /\ pc = "reading" /\ file.kind = "malformed"
    /\ alertMsg' = "Fehler: Ungueltige GPX-Datei"
    /\ loading' = FALSE
    /\ pc' = "idle"
    /\ UNCHANGED << settings, gpxData, detectedPeaks, selectedPeakIndices, file, points,
                    i, currentStop, stopSegments, clusters, runCount, lastRun,
                    onPeaksDetected >>

\* lines 96, 283-287: reader.onerror -> reject -> catch, finally
ReaderOnError ==
    /\ pc = "reading" /\ file.kind = "unreadable"
    /\ alertMsg' = "Fehler: Fehler beim Lesen der Datei"
    /\ loading' = FALSE
    /\ pc' = "idle"
    /\ UNCHANGED << settings, gpxData, detectedPeaks, selectedPeakIndices, file, points,
                    i, currentStop, stopSegments, clusters, runCount, lastRun,
                    onPeaksDetected >>

\* variant: line 149 (currentStop = null) left out
ScanPointKeepingStop ==
    /\ pc = "scan" /\ i < Len(points)
    /\ LET point == points[i + 1]
       IN  IF IsStopPoint(point, settings)
           THEN /\ currentStop' = ExtendStop(currentStop, i, point)
                /\ UNCHANGED stopSegments
           ELSE /\ stopSegments' = CloseStop(stopSegments, currentStop, i - 1)
                /\ UNCHANGED currentStop
    /\ i' = i + 1
    /\ UNCHANGED << settings, gpxData, detectedPeaks, selectedPeakIndices, loading,
                    alertMsg, file, pc, points, clusters, runCount, lastRun,
                    onPeaksDetected >>

\* lines 124-151: one iteration of the scan
ScanPoint ==
    /\ pc = "scan" /\ i < Len(points)
    /\ LET point == points[i + 1]
       IN  IF IsStopPoint(point, settings)
           THEN /\ currentStop' = ExtendStop(currentStop, i, point)
                /\ UNCHANGED stopSegments
           ELSE /\ stopSegments' = CloseStop(stopSegments, currentStop, i - 1)
                /\ currentStop' = NoStop
    /\ i' = i + 1
    /\ UNCHANGED << settings, gpxData, detectedPeaks, selectedPeakIndices, loading,
                    alertMsg, file, pc, points, clusters, runCount, lastRun,
                    onPeaksDetected >>

\* variant: lines 153-164 left out, a stop open at the end is dropped
ScanEndWithoutFlush ==
    /\ pc = "scan" /\ i = Len(points)
    /\ pc' = "cluster"
    /\ UNCHANGED << settings, gpxData, detectedPeaks, selectedPeakIndices, loading,
                    alertMsg, file, points, i, currentStop, stopSegments, clusters,
                    runCount, lastRun, onPeaksDetected >>

\* lines 153-164: the loop has ended, a stop still open is closed
ScanEnd ==
    /\ pc = "scan" /\ i = Len(points)
    /\ stopSegments' = CloseStop(stopSegments, currentStop, Len(points) - 1)
    /\ pc' = "cluster"
    /\ UNCHANGED << settings, gpxData, detectedPeaks, selectedPeakIndices, loading,
                    alertMsg, file, points, i, currentStop, clusters, runCount, lastRun,
                    onPeaksDetected >>

\* variant: a clusterer that takes the segments out of stopSegments as it
\* gathers them, leaving the array empty
ClusterConsumingSegments ==
    /\ pc = "cluster"
    /\ clusters' = ClusterStops(stopSegments, settings).clusters
    /\ stopSegments' = << >>
    /\ pc' = "score"
    /\ UNCHANGED << settings, gpxData, detectedPeaks, selectedPeakIndices, loading,
                    alertMsg, file, points, i, currentStop, runCount, lastRun,
                    onPeaksDetected >>

\* lines 166-214
Cluster ==
    /\ pc = "cluster"
    /\ clusters' = ClusterStops(stopSegments, settings).clusters
    /\ pc' = "score"
    /\ UNCHANGED << settings, gpxData, detectedPeaks, selectedPeakIndices, loading,
                    alertMsg, file, points, i, currentStop, stopSegments, runCount,
                    lastRun, onPeaksDetected >>

\* lines 216-256: forEach writes the scores into the cluster objects
Score ==
    /\ pc = "score"
    /\ clusters' = ScoreClusters(clusters, points, settings)
    /\ pc' = "rank"
    /\ UNCHANGED << settings, gpxData, detectedPeaks, selectedPeakIndices, loading,
                    alertMsg, file, points, i, currentStop, stopSegments, runCount,
                    lastRun, onPeaksDetected >>

\* line 258: sort in place, the sorted array is the return value
Rank ==
    /\ pc = "rank"
    /\ clusters' = SortByScore(clusters)
    /\ pc' = "return"
    /\ UNCHANGED << settings, gpxData, detectedPeaks, selectedPeakIndices, loading,
                    alertMsg, file, points, i, currentStop, stopSegments, runCount,
                    lastRun, onPeaksDetected >>

\* variant: line 272 selecting only the peaks the table marks score-high
\* (score > 60, line 547)
StorePeaksSelectingHigh ==
    /\ pc = "return"
    /\ detectedPeaks' = clusters
    /\ selectedPeakIndices' =
           SelectSeq([k \in 1..Len(clusters) |-> k - 1],
                     LAMBDA idx : NumGt(clusters[idx + 1].score, Int2Num(60)))
    /\ loading' = FALSE
    /\ pc' = "idle"
    /\ lastRun' = [done |-> TRUE, file |-> file, settings |-> settings, peaks |-> clusters]
    /\ UNCHANGED << settings, gpxData, alertMsg, file, points, i, currentStop,
                    stopSegments, clusters, runCount, onPeaksDetected >>

\* lines 270-287: the handler stores the returned list, selects every
\* index and clears loading
StorePeaks ==
    /\ pc = "return"
    /\ detectedPeaks' = clusters
    /\ selectedPeakIndices' = [k \in 1..Len(clusters) |-> k - 1]
    /\ loading' = FALSE
    /\ pc' = "idle"
    /\ lastRun' = [done |-> TRUE, file |-> file, settings |-> settings, peaks |-> clusters]
    /\ UNCHANGED << settings, gpxData, alertMsg, file, points, i, currentStop,
                    stopSegments, clusters, runCount, onPeaksDetected >>

\* lines 436, 504-521: the results view replaces the upload form once
\* gpxData is set; it reads gpxData[gpxData.length - 1].distance, so over an
\* empty gpxData rendering throws and none of its controls exists; nor
\* does any after onPeaksDetected was called, App's handler closing the
\* analyzer (App.jsx lines 249-250)
ResultsViewRendered ==
    /\ pc = "idle" /\ ~gpxData.isNull /\ Len(gpxData.points) >= 1
    /\ ~onPeaksDetected.called

\* lines 675-679: the "Neue Datei" button of the results view
NewFile ==
    /\ ResultsViewRendered
    /\ gpxData' = GpxNull
    /\ detectedPeaks' = << >>
    /\ selectedPeakIndices' = << >>
    /\ UNCHANGED << settings, loading, alertMsg, file, pc, points, i, currentStop,
                    stopSegments, clusters, runCount, lastRun, onPeaksDetected >>

\* one upload from the read to the stored result
UploadNext ==
    \/ ReaderOnload
    \/ ReaderOnloadParseError
    \/ ReaderOnError
    \/ ScanPoint
    \/ ScanEnd
    \/ Cluster
    \/ Score
    \/ Rank
    \/ StorePeaks

\* the component right after handleFileUpload(f) in its initial state
Uploading(f, cfg) ==
    /\ settings = cfg
    /\ gpxData = GpxNull
    /\ detectedPeaks = << >>
    /\ selectedPeakIndices = << >>
    /\ loading = TRUE
    /\ alertMsg = ""
    /\ file = f
    /\ pc = "reading"
    /\ points = << >>
    /\ i = 0
    /\ currentStop = NoStop
    /\ stopSegments = << >>
    /\ clusters = << >>
    /\ runCount = 1
    /\ lastRun = NoRun
    /\ onPeaksDetected = NotCalled

\* an upload in flight of any file of a family: the file without trkpt
\* elements, every walk of up to maxPoints fixes, a malformed file and an
\* unreadable one
UploadingAny(Steps, Eles, maxPoints, cfg) ==
    \/ Uploading(GpxFile(<< >>), cfg)
    \/ \E n \in 1..maxPoints : \E s \in [1..(n - 1) -> Steps], e \in [1..n -> Eles] :
           Uploading(GpxFile(BuildTrack(s, e)), cfg)
    \/ Uploading(MalformedFile, cfg)
    \/ Uploading(UnreadableFile, cfg)

\* segmenter inputs: rests, walking at and above the threshold speed, a
\* clock stepping back, fixes without time or lat
SegInit == UploadingAny(SegSteps, SegEles, MaxSegPoints, DefaultSettings)
SegSpec == SegInit /\ [][UploadNext]_vars

\* a step of the scan as pc and i show it: the loop takes the next point
\* (ScanPoint) or, past the last point, ends (ScanEnd)
ScanProgress ==
    /\ pc = "scan"
    /\ \/ i < Len(points) /\ i' = i + 1 /\ pc' = pc
       \/ i = Len(points) /\ i' = i /\ pc' = "cluster"

\* the for loop of lines 124-151 and the flush after it run to completion
\* within the one call of detectStopBasedPeaks
SegFairSpec == SegSpec /\ WF_<<pc, i>>(ScanProgress)

\* clusterer inputs: short rests, long rests and walking, under two settings
ClusterInit ==
    \E cfg \in {DefaultSettings, FormerSettings} :
        UploadingAny(ClusterSteps, ClusterEles, MaxClusterPoints, cfg)
ClusterSpec == ClusterInit /\ [][UploadNext]_vars

\* scorer inputs: long rests and hops over fixes at two heights or without <ele>
ScoreInit == UploadingAny(ScoreSteps, ScoreEles, MaxScorePoints, DefaultSettings)
ScoreSpec == ScoreInit /\ [][UploadNext]_vars

\* prominence inputs: long rests, hops, and slow drifts that put the fixes
\* of one stop far apart in place and time
PromInit == UploadingAny(PromSteps, PromEles, MaxPromPoints, DefaultSettings)
PromSpec == PromInit /\ [][UploadNext]_vars

\* neighbor inputs: long rests, quick moves of 60 m and fixes without
\* <time>, at two heights
NeighborInit ==
    UploadingAny(NeighborSteps, NeighborEles, MaxNeighborPoints, DefaultSettings)
NeighborSpec == NeighborInit /\ [][UploadNext]_vars

\* the walk with one rest: 100 fixes over 10 minutes at evenly spaced
\* timestamps, 200000/33 ms apart (taken exactly, finer than the
\* millisecond a Date holds); fix k (0-based) is reached at 2 m/s, that is
\* 400/33 m from fix k - 1, the fixes 40..60 at 0.1 m/s, 20/33 m; 400 m of
\* elevation outside the rest, 500 m rising by 15 m per fix to 800 m
\* inside it
RestWalkTime(k) == R(200000 * k, 33)

\* thirty-thirds of a metre walked up to fix k
RestWalkPos(k) ==
    400 * k - (IF k >= 40 THEN 380 * ((IF k <= 60 THEN k ELSE 60) - 39) ELSE 0)

RestWalkTrack ==
    [k \in 1..100 |->
        [ lat  |-> R(RestWalkPos(k - 1), 33),
          lon  |-> Zero,
          ele  |-> IF (k - 1) \in 40..60 THEN Int2Num(500 + 15 * (k - 1 - 40))
                   ELSE Int2Num(400),
          time |-> RestWalkTime(k - 1) ] ]

\* the upload of that walk under the default settings, from the read to
\* the stored result
RestWalkInit == Uploading(GpxFile(RestWalkTrack), DefaultSettings)
RestWalkNext ==
    ReaderOnload \/ ScanPoint \/ ScanEnd \/ Cluster \/ Score \/ Rank \/ StorePeaks
RestWalkSpec == RestWalkInit /\ [][RestWalkNext]_vars

\* tours: a rest at the start, then up to MaxVisits visits, each a quick
\* move 60 m out or back followed by a rest of two fixes, short or long
Visits == { << Out, Stay, Stay >>, << Out, Stay, Pause >>,
            << In, Stay, Stay >>, << In, Pause, Stay >> }

RECURSIVE FlatSteps(_)
FlatSteps(vs) == IF vs = << >> THEN << >> ELSE vs[1] \o FlatSteps(Tail(vs))

TourTrack(vs) ==
    BuildTrack(<< Stay >> \o FlatSteps(vs), [k \in 1..(2 + 3 * Len(vs)) |-> Int2Num(100)])

TourInit ==
    \E n \in 0..MaxVisits : \E vs \in [1..n -> Visits] :
        Uploading(GpxFile(TourTrack(vs)), DefaultSettings)
TourSpec == TourInit /\ [][RestWalkNext]_vars

\* the same file analysed again after "Neue Datei", up to MaxRuns uploads
RerunInit == UploadingAny(RerunSteps, RerunEles, MaxRerunPoints, DefaultSettings)
RerunNext == UploadNext \/ NewFile \/ handleFileUpload(file)
RerunSpec == RerunInit /\ [][RerunNext]_vars

\* prev.includes(idx)
Includes(s, x) == \E k \in 1..Len(s) : s[k] = x

\* variant: lines 402-406 pushing idx whether or not it is included
ToggledByPushing(prev, idx) == Append(prev, idx)

\* lines 402-406: the updater passed to setSelectedPeakIndices
Toggled(prev, idx) ==
    IF Includes(prev, idx) THEN SelectSeq(prev, LAMBDA k : k # idx)
    ELSE Append(prev, idx)

\* lines 401-407, 565, 573, 384-389: a click on row idx of the peaks table,
\* on its checkbox or on marker idx of the elevation plot
handlePeakToggle(idx) ==
    /\ ResultsViewRendered
    /\ idx \in 0..(Len(detectedPeaks) - 1)
    /\ selectedPeakIndices' = Toggled(selectedPeakIndices, idx)
    /\ UNCHANGED << settings, gpxData, detectedPeaks, loading, alertMsg, file, pc,
                    points, i, currentStop, stopSegments, clusters, runCount, lastRun,
                    onPeaksDetected >>

\* lines 409-411: the "Alle" button, rendered over a non-empty peak list
handleSelectAll ==
    /\ ResultsViewRendered
    /\ Len(detectedPeaks) > 0
    /\ selectedPeakIndices' = [k \in 1..Len(detectedPeaks) |-> k - 1]
    /\ UNCHANGED << settings, gpxData, detectedPeaks, loading, alertMsg, file, pc,
                    points, i, currentStop, stopSegments, clusters, runCount, lastRun,
                    onPeaksDetected >>

\* lines 413-415: the "Keine" button
handleDeselectAll ==
    /\ ResultsViewRendered
    /\ Len(detectedPeaks) > 0
    /\ selectedPeakIndices' = << >>
    /\ UNCHANGED << settings, gpxData, detectedPeaks, loading, alertMsg, file, pc,
                    points, i, currentStop, stopSegments, clusters, runCount, lastRun,
                    onPeaksDetected >>

\* line 418: selectedPeakIndices.map(idx => detectedPeaks[idx]); an index
\* outside the list reads undefined
SelectedPeaks(indices, peaks) ==
    [k \in 1..Len(indices) |->
        IF indices[k] \in 0..(Len(peaks) - 1) THEN peaks[indices[k] + 1] ELSE Undefined]

\* lines 417-420, 665-670: the confirm button, disabled over an empty
\* selection, passes the selected peaks to onPeaksDetected
handleConfirmPeaks ==
    /\ ResultsViewRendered
    /\ Len(selectedPeakIndices) # 0
    /\ onPeaksDetected' =
           [called |-> TRUE, peaks |-> SelectedPeaks(selectedPeakIndices, detectedPeaks)]
    /\ UNCHANGED << settings, gpxData, detectedPeaks, selectedPeakIndices, loading,
                    alertMsg, file, pc, points, i, currentStop, stopSegments, clusters,
                    runCount, lastRun >>

\* lines 451-488: a settings input of the upload form is edited; a run
\* in flight keeps the settings of the render that started it
setSettings(cfg) ==
    /\ pc = "idle" /\ gpxData.isNull
    /\ cfg # settings
    /\ settings' = cfg
    /\ UNCHANGED << gpxData, detectedPeaks, selectedPeakIndices, loading, alertMsg,
                    file, pc, points, i, currentStop, stopSegments, clusters, runCount,
                    lastRun, onPeaksDetected >>

\* lines 493-502: any file of a family is chosen in the file input
ChooseAny(Steps, Eles, maxPoints) ==
    \/ handleFileUpload(GpxFile(<< >>))
    \/ \E n \in 1..maxPoints : \E s \in [1..(n - 1) -> Steps], e \in [1..n -> Eles] :
           handleFileUpload(GpxFile(BuildTrack(s, e)))
    \/ handleFileUpload(MalformedFile)
    \/ handleFileUpload(UnreadableFile)

\* lines 17-34: the component as mounted
Init ==
    /\ settings = DefaultSettings
    /\ gpxData = GpxNull
    /\ detectedPeaks = << >>
    /\ selectedPeakIndices = << >>
    /\ loading = FALSE
    /\ alertMsg = ""
    /\ file = NoFile
    /\ pc = "idle"
    /\ points = << >>
    /\ i = 0
    /\ currentStop = NoStop
    /\ stopSegments = << >>
    /\ clusters = << >>
    /\ runCount = 0
    /\ lastRun = NoRun
    /\ onPeaksDetected = NotCalled

\* the mounted component: settings edits, uploads, the controls of the
\* results view
Next ==
    \/ \E cfg \in {DefaultSettings, FormerSettings} : setSettings(cfg)
    \/ ChooseAny(UiSteps, UiEles, MaxUiPoints)
    \/ UploadNext
    \/ \E idx \in 0..MaxUiPoints : handlePeakToggle(idx)
    \/ handleSelectAll
    \/ handleDeselectAll
    \/ handleConfirmPeaks
    \/ NewFile

Spec == Init /\ [][Next]_vars

\* a step of an upload in flight as pc and i show it: the read ends in
\* onload or onerror, the code after the await runs to its end
UploadProgress ==
    \/ pc = "reading" /\ pc' \in {"scan", "idle"} /\ i' \in {0, i}
    \/ ScanProgress
    \/ pc = "cluster" /\ pc' = "score" /\ i' = i
    \/ pc = "score" /\ pc' = "rank" /\ i' = i
    \/ pc = "rank" /\ pc' = "return" /\ i' = i
    \/ pc = "return" /\ pc' = "idle" /\ i' = i

\* the FileReader fires onload or onerror for every read it was given, and
\* the handler's continuation is synchronous
FairSpec == Spec /\ WF_<<pc, i>>(UploadProgress)

---------------------------------------------------------------------------
(* Properties                                                              *)

\* the segmenter has consumed every point and closed the last stop
SegmenterDone == pc \in {"cluster", "score", "rank", "return"}

\* handleFileUpload has stored the result of the current file
UploadStored == pc = "idle" /\ lastRun.done /\ ~gpxData.isNull

\* point.speed < stopSpeedThreshold, read off the stored point
BelowThreshold(point) == NumLt(point.speed, settings.stopSpeedThreshold)

\* the 0-based indices of the points lying in some emitted segment
CoveredIndices ==
    UNION { stopSegments[k].startIndex .. stopSegments[k].endIndex
                : k \in 1..Len(stopSegments) }

EverySegmentHasTwoPoints ==
    \A k \in 1..Len(stopSegments) :
        /\ stopSegments[k].endIndex - stopSegments[k].startIndex >= 1
        /\ Len(stopSegments[k].points) >= 2

\* a step of the scan that closes an open run of one point, by a point at
\* or above the threshold or by the end of the sequence, emits nothing
SingleRunDiscarded ==
    ( /\ pc = "scan"
      /\ currentStop # NoStop
      /\ Len(currentStop.points) = 1
      /\ (i = Len(points) \/ ~BelowThreshold(points[i + 1])) )
        => stopSegments' = stopSegments

\* C4: every emitted stop segment has endIndex - startIndex >= 1 and holds
\* at least 2 points; a run of one below-threshold point is discarded both
\* when a fast point closes it and when it is still open at the end
C4_SegmentMinimumSize == []EverySegmentHasTwoPoints /\ [][SingleRunDiscarded]_vars

\* a finished scan that emitted a segment and dropped a one-point run that
\* was still open at the last point
C4_Witness ==
    /\ SegmenterDone
    /\ Len(stopSegments) >= 1
    /\ Len(points) >= 2
    /\ BelowThreshold(points[Len(points)])
    /\ ~BelowThreshold(points[Len(points) - 1])
    /\ (Len(points) - 1) \notin CoveredIndices

\* C5: emitted segments never overlap and come in increasing index order:
\* each segment ends before the next one starts
C5_SegmentsDisjointOrdered ==
    /\ \A k \in 1..Len(stopSegments) :
           stopSegments[k].startIndex <= stopSegments[k].endIndex
    /\ \A k \in 1..(Len(stopSegments) - 1) :
           stopSegments[k].endIndex < stopSegments[k + 1].startIndex
    /\ \A a, b \in 1..Len(stopSegments) :
           a # b => (stopSegments[a].startIndex .. stopSegments[a].endIndex)
                        \cap (stopSegments[b].startIndex .. stopSegments[b].endIndex) = {}

C5_Witness == SegmenterDone /\ Len(stopSegments) >= 2

\* C6: in every parsed track the first point has distance 0 and the
\* cumulative distance never decreases from one point to the next
C6_DistanceMonotone ==
    pc # "reading" =>
        /\ Len(points) >= 1 => points[1].distance = Zero
        /\ \A k \in 1..(Len(points) - 1) :
               NumGe(points[k + 1].distance, points[k].distance)

\* C8: a parsed track in which no point after the first is below the
\* threshold yields no stop segment, no cluster, an empty stored result
\* and no alert
C8_NoStopNoPeaks ==
    (\A k \in 2..Len(points) : ~BelowThreshold(points[k])) =>
        /\ SegmenterDone => stopSegments = << >>
        /\ pc \in {"score", "rank", "return"} => clusters = << >>
        /\ UploadStored =>
               /\ stopSegments = << >>
               /\ detectedPeaks = << >>
               /\ selectedPeakIndices = << >>
               /\ alertMsg = ""
               /\ ~loading

\* a stored result of a track of three or more fixes, one of them exactly
\* at the threshold speed, none but the first below it
C8_Witness ==
    /\ UploadStored
    /\ Len(points) >= 3
    /\ \A k \in 2..Len(points) : NumGe(points[k].speed, settings.stopSpeedThreshold)
    /\ \E k \in 2..Len(points) : points[k].speed = settings.stopSpeedThreshold
    /\ detectedPeaks = << >>

\* every point of the track is below the threshold
AllBelowThreshold == \A k \in 1..Len(points) : BelowThreshold(points[k])

OneSegmentSpanningTrack ==
    /\ Len(stopSegments) = 1
    /\ stopSegments[1].startIndex = 0
    /\ stopSegments[1].endIndex = Len(points) - 1

\* C9 as stated: every non-empty track entirely below the threshold yields
\* exactly one segment, from index 0 to the last index
C9_AllBelowOneSegment_AsStated ==
    (SegmenterDone /\ Len(points) >= 1 /\ AllBelowThreshold) => OneSegmentSpanningTrack

\* C9: every track of at least two points, all below the threshold, yields
\* exactly one segment, from index 0 to the last index; a track of a
\* single point yields none
C9_AllBelowOneSegment ==
    /\ (SegmenterDone /\ Len(points) >= 2 /\ AllBelowThreshold) => OneSegmentSpanningTrack
    /\ (SegmenterDone /\ Len(points) = 1) => stopSegments = << >>

C9_Witness ==
    SegmenterDone /\ Len(points) >= 3 /\ AllBelowThreshold /\ OneSegmentSpanningTrack

\* the clusterer has run: clusters holds what it kept
ClustererDone == pc \in {"score", "rank", "return"}

Range(s) == { s[k] : k \in 1..Len(s) }

\* sum of endTime - startTime over the member segments, in milliseconds
MemberMillis(c) == SumSeq(MapSeq(c.segments, LAMBDA sg : NumSub(sg.endTime, sg.startTime)))

ReachesFloor(c) ==
    /\ NumGe(MemberMillis(c), NumMul(settings.minStopDuration, Int2Num(60000)))
    /\ c.duration = NumDiv(MemberMillis(c), Int2Num(60000))

\* C1: every cluster the clusterer keeps, and every cluster of the stored
\* result, has a total duration (sum of its members' endTime - startTime,
\* in minutes) of at least minStopDuration
C1_ClusterDurationFloor ==
    /\ ClustererDone => \A k \in 1..Len(clusters) : ReachesFloor(clusters[k])
    /\ UploadStored => \A k \in 1..Len(detectedPeaks) : ReachesFloor(detectedPeaks[k])

\* a returned list that holds a cluster while another cluster, seeded by a
\* segment that no returned cluster holds, was discarded
C1_Witness ==
    /\ pc = "return"
    /\ Len(clusters) >= 1
    /\ \E j \in 0..(Len(stopSegments) - 1) :
           \A k \in 1..Len(clusters) : j \notin Range(clusters[k].indices)

\* distance between average positions <= clusterDistance (0-based g, j)
WithinClusterDistance(g, j) ==
    NumLe(calculateDistance(stopSegments[g + 1].avgLat, stopSegments[g + 1].avgLon,
                            stopSegments[j + 1].avgLat, stopSegments[j + 1].avgLon),
          settings.clusterDistance)

\* gap between g's end and j's start <= clusterTimeGap minutes
WithinClusterTimeGap(g, j) ==
    NumLe(MathAbs(NumSub(stopSegments[j + 1].startTime, stopSegments[g + 1].endTime)),
          NumMul(settings.clusterTimeGap, Int2Num(60000)))

\* segment h seeds a cluster when no earlier seed has taken it; seed g
\* takes a later segment j that no earlier seed has taken when either
\* criterion holds
RECURSIVE IsSeed(_), Takes(_, _)
IsSeed(h) == \A g \in 0..(h - 1) : ~Takes(g, h)
Takes(g, j) ==
    /\ g < j
    /\ IsSeed(g)
    /\ \A f \in 0..(g - 1) : ~Takes(f, j)
    /\ (WithinClusterDistance(g, j) \/ WithinClusterTimeGap(g, j))

\* C10: a later segment j not taken by an earlier seed is a member of the
\* cluster seeded by i exactly when the distance criterion or the time-gap
\* criterion holds between i and j; it is left out only when both fail
C10_ClusterOrSemantics ==
    ClustererDone =>
        \A k \in 1..Len(clusters) :
            LET seed == clusters[k].indices[1]
            IN  /\ IsSeed(seed)
                /\ \A j \in 0..(Len(stopSegments) - 1) :
                       j \in Range(clusters[k].indices) <=> (j = seed \/ Takes(seed, j))

\* a returned cluster with a member within clusterDistance of the seed
\* whose time gap to the seed exceeds clusterTimeGap
C10_Witness ==
    /\ pc = "return"
    /\ \E k \in 1..Len(clusters) :
           \E j \in Range(clusters[k].indices) :
               /\ j # clusters[k].indices[1]
               /\ WithinClusterDistance(clusters[k].indices[1], j)
               /\ ~WithinClusterTimeGap(clusters[k].indices[1], j)

\* 0 <= x <= 100
InScoreRange(x) == NumGe(x, Zero) /\ NumLe(x, Int2Num(100))

ScoresInRange(c) ==
    /\ InScoreRange(c.durationScore)
    /\ InScoreRange(c.elevationScore)
    /\ InScoreRange(c.prominenceScore)
    /\ InScoreRange(c.score)

\* C2: for every scored cluster, durationScore, elevationScore,
\* prominenceScore and the composite score all lie in [0, 100]
C2_ScoreBounds ==
    /\ pc \in {"rank", "return"} => \A k \in 1..Len(clusters) : ScoresInRange(clusters[k])
    /\ UploadStored => \A k \in 1..Len(detectedPeaks) : ScoresInRange(detectedPeaks[k])

\* descending by score; clusters of equal score in the order of their seeds
RankedStably(s) ==
    \A a, b \in 1..Len(s) :
        a < b =>
            /\ NumGe(s[a].score, s[b].score)
            /\ s[a].score = s[b].score => s[a].indices[1] < s[b].indices[1]

\* C3: the returned list, and the stored one, is sorted by composite score
\* in descending order, clusters of equal score keeping the order of their
\* seed segments
C3_RankingOrder ==
    /\ pc = "return" => RankedStably(clusters)
    /\ UploadStored => RankedStably(detectedPeaks)

\* a returned list with two clusters of equal score
C3_Witness ==
    /\ pc = "return"
    /\ \E a, b \in 1..Len(clusters) : a < b /\ clusters[a].score = clusters[b].score

\* C7: a run on the file and settings of the last finished run returns the
\* list that run returned: same clusters, same order, same scores
C7_SameInputSameOutput ==
    ( /\ pc = "return"
      /\ lastRun.done
      /\ lastRun.file = file
      /\ lastRun.settings = settings )
        => clusters = lastRun.peaks

\* the second run on a file returns two clusters
C7_Witness ==
    /\ pc = "return"
    /\ runCount = 2
    /\ lastRun.done /\ lastRun.file = file /\ lastRun.settings = settings
    /\ Len(clusters) >= 2

\* the 0-based indices of the segments gathered by seed h: h itself and
\* every later segment it takes
SeededGroup(h) ==
    SelectSeq([k \in 1..Len(stopSegments) |-> k - 1], LAMBDA j : j = h \/ Takes(h, j))

\* sum of endTime - startTime over the group of seed h, in milliseconds
GroupMillis(h) ==
    SumSeq(MapSeq(SeededGroup(h), LAMBDA j :
        NumSub(stopSegments[j + 1].endTime, stopSegments[j + 1].startTime)))

\* every group a seed gathers lasts less than minStopDuration minutes
NoGroupReachesFloor ==
    \A h \in 0..(Len(stopSegments) - 1) :
        IsSeed(h) => NumLt(GroupMillis(h), NumMul(settings.minStopDuration, Int2Num(60000)))

\* C11: when the parsed track has no stop segment, or no cluster of its
\* segments reaches minStopDuration, detectStopBasedPeaks returns the empty
\* list and handleFileUpload ends with detectedPeaks empty, nothing
\* selected, no alert and loading cleared
C11_EmptyResultNoError ==
    (stopSegments = << >> \/ NoGroupReachesFloor) =>
        /\ pc \in {"score", "rank", "return"} => clusters = << >>
        /\ UploadStored =>
               /\ detectedPeaks = << >>
               /\ selectedPeakIndices = << >>
               /\ alertMsg = ""
               /\ ~loading

\* a stored result of a track whose only stop lasts half a minute while
\* minStopDuration is 1
C11_Witness ==
    /\ UploadStored
    /\ Len(stopSegments) = 1
    /\ GroupMillis(0) = Int2Num(30000)
    /\ settings.minStopDuration = Int2Num(1)
    /\ detectedPeaks = << >>
    /\ alertMsg = ""

\* C12: a well-formed file without track fixes is rejected with an error of
\* its own, not the one of a malformed file: the upload ends idle with that
\* error reported, and gpxData never holds an empty point sequence
C12_EmptyTrackRejected ==
    /\ ~gpxData.isNull => Len(gpxData.points) >= 1
    /\ (file.kind = "gpx" /\ file.trkpts = << >> /\ pc # "reading") =>
           /\ pc = "idle"
           /\ alertMsg # ""
           /\ alertMsg # "Fehler: Ungueltige GPX-Datei"

\* the read of the chosen file ends in a rejection
ParseFails == pc = "reading" /\ file.kind \in {"malformed", "unreadable"}

\* C13: when parsing fails on malformed XML or on a read error the run
\* ends at once: detectStopBasedPeaks does not start, gpxData, detectedPeaks
\* and selectedPeakIndices keep the values they had when the file was
\* chosen, the error is reported and loading is cleared
C13_ParseFailureAborts ==
    [][ /\ (pc = "idle" /\ pc' = "reading") =>
               UNCHANGED << gpxData, detectedPeaks, selectedPeakIndices >>
        /\ ParseFails =>
               /\ pc' = "idle"
               /\ UNCHANGED << gpxData, detectedPeaks, selectedPeakIndices >>
               /\ UNCHANGED << points, i, currentStop, stopSegments, clusters >>
               /\ alertMsg' # ""
               /\ ~loading' ]_vars

\* a failed upload after an earlier upload had stored peaks
C13_Witness ==
    /\ pc = "idle"
    /\ file.kind \in {"malformed", "unreadable"}
    /\ alertMsg # ""
    /\ ~loading
    /\ lastRun.done /\ Len(lastRun.peaks) >= 1
    /\ gpxData.isNull /\ detectedPeaks = << >>

\* the group of seed h lasts less than minStopDuration minutes
BelowFloor(h) == NumLt(GroupMillis(h), NumMul(settings.minStopDuration, Int2Num(60000)))

\* C14: every stop segment is a member of at most one kept cluster, and at
\* most once; the members of a cluster are segments of the segment list;
\* every segment ends up marked used; the segments gathered by a seed whose
\* cluster is discarded for lasting less than minStopDuration are in no
\* kept cluster
C14_SegmentInOneCluster ==
    ClustererDone =>
        /\ \A a, b \in 1..Len(clusters) :
               a # b => Range(clusters[a].indices) \cap Range(clusters[b].indices) = {}
        /\ \A k \in 1..Len(clusters) :
               /\ \A x, y \in 1..Len(clusters[k].indices) :
                      x # y => clusters[k].indices[x] # clusters[k].indices[y]
               /\ clusters[k].segments =
                      [x \in 1..Len(clusters[k].indices) |->
                          stopSegments[clusters[k].indices[x] + 1]]
        /\ ClusterStops(stopSegments, settings).used = 0..(Len(stopSegments) - 1)
        /\ \A h \in 0..(Len(stopSegments) - 1) :
               (IsSeed(h) /\ BelowFloor(h)) =>
                   \A j \in Range(SeededGroup(h)) :
                       \A k \in 1..Len(clusters) : j \notin Range(clusters[k].indices)

\* a returned list with a cluster of two or more segments while the
\* cluster of another seed was discarded
C14_Witness ==
    /\ pc = "return"
    /\ \E k \in 1..Len(clusters) : Len(clusters[k].indices) >= 2
    /\ \E h \in 0..(Len(stopSegments) - 1) : IsSeed(h) /\ BelowFloor(h)

\* the index lists of the groups that reach minStopDuration
GroupsReachingFloor ==
    { SeededGroup(h) : h \in { g \in 0..(Len(stopSegments) - 1) : IsSeed(g) /\ ~BelowFloor(g) } }

\* the returned list holds one cluster per group that reached the floor,
\* with the segments of that group
ReturnsClustersThatPassed ==
    pc = "return" =>
        /\ { clusters[k].indices : k \in 1..Len(clusters) } = GroupsReachingFloor
        /\ Len(clusters) = Cardinality(GroupsReachingFloor)
        /\ \A k \in 1..Len(clusters) :
               clusters[k].segments =
                   [x \in 1..Len(clusters[k].indices) |->
                       stopSegments[clusters[k].indices[x] + 1]]

\* the scoring step keeps every cluster in place with its members and the
\* values the clusterer gave it
ScoringKeepsClusters ==
    pc = "score" =>
        /\ Len(clusters') = Len(clusters)
        /\ \A k \in 1..Len(clusters) :
               /\ clusters'[k].segments = clusters[k].segments
               /\ clusters'[k].indices = clusters[k].indices
               /\ clusters'[k].duration = clusters[k].duration
               /\ clusters'[k].avgEle = clusters[k].avgEle
               /\ clusters'[k].maxEle = clusters[k].maxEle

\* the ranking step rearranges the scored clusters: each one occurs as
\* often after the step as before
RankingPermutes ==
    pc = "rank" =>
        /\ Len(clusters') = Len(clusters)
        /\ \A k \in 1..Len(clusters) :
               Cardinality({ x \in 1..Len(clusters') : clusters'[x] = clusters[k] })
                   = Cardinality({ x \in 1..Len(clusters) : clusters[x] = clusters[k] })

\* C15: scoring and ranking neither add nor remove clusters; the returned
\* list is a rearrangement of exactly the clusters that passed the
\* minStopDuration filter, each with the member segments it had
C15_ScoringRankingKeepClusters ==
    /\ []ReturnsClustersThatPassed
    /\ [][ScoringKeepsClusters /\ RankingPermutes]_vars

\* a returned list of two or more clusters in an order other than that of
\* their seeds
C15_Witness ==
    /\ pc = "return"
    /\ Len(clusters) >= 2
    /\ clusters[1].indices[1] > clusters[2].indices[1]

\* every index of the stored list is selected, once
AllIndicesSelected ==
    /\ Len(selectedPeakIndices) = Len(detectedPeaks)
    /\ Range(selectedPeakIndices) = 0..(Len(detectedPeaks) - 1)

\* C16: when detectStopBasedPeaks has returned, handleFileUpload stores the
\* whole returned list in detectedPeaks and selects exactly the indices
\* 0..detectedPeaks.length-1, whatever the scores are
C16_AllPeaksSelectedByDefault ==
    /\ [](UploadStored => (detectedPeaks = lastRun.peaks /\ AllIndicesSelected))
    /\ [][pc = "return" =>
              /\ detectedPeaks' = clusters
              /\ Len(selectedPeakIndices') = Len(clusters)
              /\ Range(selectedPeakIndices') = 0..(Len(clusters) - 1)]_vars

\* a stored list of two or more peaks, one of them with a negative score,
\* all selected
C16_Witness ==
    /\ UploadStored
    /\ Len(detectedPeaks) >= 2
    /\ \E k \in 1..Len(detectedPeaks) :
           /\ NumLt(detectedPeaks[k].score, Zero)
           /\ (k - 1) \in Range(selectedPeakIndices)

\* the scorer has run: every cluster carries its prominence
ScorerDone == pc \in {"rank", "return"}

\* the neighbor set of a scored cluster
NeighborsOf(c) == CombinedNeighbors(c, points, settings)

EveryNeighborHasEle(c) == \A n \in 1..Len(NeighborsOf(c)) : NeighborsOf(c)[n].ele # Null

\* mean of the elevations of a non-empty neighbor set
MeanNeighborEle(c) ==
    NumDiv(SumSeq(MapSeq(NeighborsOf(c), LAMBDA p : p.ele)), Int2Num(Len(NeighborsOf(c))))

\* prominence over a non-empty neighbor set in which every point has an
\* elevation: maxEle minus the mean neighbor elevation
ProminenceOverNeighbors(c) ==
    (NeighborsOf(c) # << >> /\ EveryNeighborHasEle(c)) =>
        c.prominence = NumSub(c.maxEle, MeanNeighborEle(c))

WithEle(ps) == SelectSeq(ps, LAMBDA p : p.ele # Null)

\* mean and maximum of the elevations of points that all have one
MeanEle(ps) == NumDiv(SumSeq(MapSeq(ps, LAMBDA p : p.ele)), Int2Num(Len(ps)))
MaxEle(ps) == MaxSeq(MapSeq(ps, LAMBDA p : p.ele))

\* average and maximum elevation taken over the points with an elevation
AggregatesOver(x, ps) ==
    WithEle(ps) # << >> =>
        /\ x.avgEle = MeanEle(WithEle(ps))
        /\ x.maxEle = MaxEle(WithEle(ps))

\* the percentile threshold taken over the points with an elevation
ThresholdOverWithEle ==
    LET sorted == SortAscending(MapSeq(WithEle(points), LAMBDA p : p.ele))
        at == (Len(sorted) * settings.elevationPercentile.n) \div 100
    IN  sorted[at + 1]

\* C18: a point without elevation stays in the point sequence and is left
\* out of the elevation aggregates: average and maximum elevation of
\* segments and clusters, the mean neighbor elevation and the percentile
\* threshold are taken over the points that have an elevation; a point
\* without timestamp has no speed computed for the pairs it is part of;
\* neither reports an error
C18_MissingDataExcluded ==
    pc # "reading" /\ file.kind = "gpx" =>
        /\ Len(points) = Len(file.trkpts)
        /\ \A k \in 1..Len(points) :
               points[k].index = k - 1 /\ points[k].ele = file.trkpts[k].ele
        /\ \A k \in 2..Len(points) :
               (points[k].time = Null \/ points[k - 1].time = Null) =>
                   points[k].speed = Zero
        /\ alertMsg = ""
        /\ SegmenterDone =>
               \A k \in 1..Len(stopSegments) :
                   AggregatesOver(stopSegments[k], stopSegments[k].points)
        /\ ClustererDone =>
               \A k \in 1..Len(clusters) :
                   AggregatesOver(clusters[k], FlatPoints(clusters[k].segments))
        /\ ScorerDone =>
               \A k \in 1..Len(clusters) :
                   /\ WithEle(NeighborsOf(clusters[k])) # << >> =>
                          clusters[k].prominence =
                              NumSub(clusters[k].maxEle,
                                     MeanEle(WithEle(NeighborsOf(clusters[k]))))
                   /\ WithEle(points) # << >> =>
                          (clusters[k].elevationScore = Int2Num(100)
                              <=> NumGe(clusters[k].avgEle, ThresholdOverWithEle))

\* both fixes of the pair (k - 1, k) have a timestamp and the clock moved on
ClockAdvances(k) ==
    /\ points[k].time # Null /\ points[k - 1].time # Null
    /\ NumGt(NumSub(points[k].time, points[k - 1].time), Zero)

\* metres between fix k - 1 and fix k per second between their timestamps
MetresPerSecond(k) ==
    NumDiv(NumMul(MathAbs(NumSub(parseFloat(file.trkpts[k].lat),
                                 parseFloat(file.trkpts[k - 1].lat))),
                  Int2Num(1000)),
           NumSub(points[k].time, points[k - 1].time))

\* C19: in every parsed track the first point has speed 0; a later point
\* has speed distance / time delta to its predecessor when both have
\* timestamps and the delta is positive, and speed 0 otherwise; every
\* speed is >= 0 and every point's index is its position in the sequence
C19_SpeedAndIndex ==
    (pc # "reading" /\ file.kind = "gpx") =>
        /\ Len(points) >= 1 => points[1].speed = Zero
        /\ \A k \in 2..Len(points) :
               points[k].speed = IF ClockAdvances(k) THEN MetresPerSecond(k) ELSE Zero
        /\ \A k \in 1..Len(points) :
               /\ NumGe(points[k].speed, Zero)
               /\ points[k].index = k - 1

\* detectStopBasedPeaks is running or has just returned
Detecting == pc \in {"scan", "cluster", "score", "rank", "return"}

\* a step of detectStopBasedPeaks leaves the point sequence and every
\* point in it as parsed
PointsKept == Detecting => (points' = points /\ gpxData' = gpxData)

\* a step after the segmenter leaves the segment list and every segment in
\* it as emitted
SegmentsKept == (SegmenterDone /\ Detecting) => stopSegments' = stopSegments

\* C20 as stated: no step of detectStopBasedPeaks alters the points, no
\* step after the segmenter alters the stop segments, and neither the
\* scorer nor the ranker alters the cluster list the clusterer produced
C20_NoInPlaceMutation_AsStated ==
    [][ /\ PointsKept
        /\ SegmentsKept
        /\ pc \in {"score", "rank"} => clusters' = clusters ]_vars

\* what the clusterer assigned to a cluster
ClustererFields(c) ==
    << c.segments, c.indices, c.avgLat, c.avgLon, c.avgEle, c.maxEle, c.duration,
       c.startTime, c.endTime >>

\* the scorer writes into the clusters of the clusterer's list: the list
\* keeps its clusters in place and each keeps what the clusterer assigned,
\* while prominence, index, the scores and lat, lon, ele are set on it
ScorerWritesInPlace ==
    pc = "score" =>
        /\ Len(clusters') = Len(clusters)
        /\ \A k \in 1..Len(clusters) :
               /\ ClustererFields(clusters'[k]) = ClustererFields(clusters[k])
               /\ clusters[k].score = Undefined /\ clusters[k].index = -1
               /\ clusters'[k].score # Undefined /\ clusters'[k].index # -1
               /\ clusters'[k] # clusters[k]

\* the ranker reorders the same list: lengths agree and every cluster of
\* the list before is in the list after
RankerSortsInPlace ==
    pc = "rank" =>
        /\ Len(clusters') = Len(clusters)
        /\ Range(clusters') = Range(clusters)

\* C20: no step of detectStopBasedPeaks alters the points and no step
\* after the segmenter alters the stop segments; the cluster list of the
\* clusterer is altered in place: the scorer sets the scoring fields on
\* its clusters and the ranker reorders it
C20_NoInPlaceMutation ==
    [][PointsKept /\ SegmentsKept /\ ScorerWritesInPlace /\ RankerSortsInPlace]_vars

\* a returned list whose first cluster is not the first cluster the
\* clusterer produced, over segments and points that are still as emitted
C20_Witness ==
    /\ pc = "return"
    /\ Len(clusters) >= 2
    /\ clusters[1].indices # ClusterStops(stopSegments, settings).clusters[1].indices
    /\ clusters[1].score # Undefined
    /\ points = parseGPX(file)

\* minutes, as a bound on a duration
Minutes(n, d) == R(n, d)

\* the walk's speeds are as described: 0 at the first fix, 2 m/s at the
\* others except 0.1 m/s at the fixes 40..60
RestWalkSpeeds ==
    /\ Len(points) = 100
    /\ points[1].speed = Zero
    /\ \A k \in 2..100 :
           points[k].speed = IF (k - 1) \in 40..60 THEN R(1, 10) ELSE Int2Num(2)

\* one cluster of the fixes 40..60, reported at 800 m with elevationScore 100
OneClusterAt800 ==
    /\ Len(clusters) = 1
    /\ Len(stopSegments) = 1
    /\ stopSegments[1].startIndex = 40 /\ stopSegments[1].endIndex = 60
    /\ clusters[1].segments = stopSegments
    /\ clusters[1].ele = Int2Num(800)
    /\ clusters[1].elevationScore = Int2Num(100)

\* C21 as stated: the walk yields exactly one cluster, reported at 800 m,
\* lasting about 4 minutes, with elevationScore 100
C21_ScenarioA_AsStated ==
    pc = "return" =>
        /\ OneClusterAt800
        /\ NumGe(clusters[1].duration, Minutes(7, 2))
        /\ NumLe(clusters[1].duration, Minutes(9, 2))

\* C21: the walk yields exactly one cluster, reported at 800 m, with
\* elevationScore 100; it lasts the 20 intervals between the fixes 40 and
\* 60, about 2 minutes
C21_ScenarioA ==
    pc = "return" =>
        /\ RestWalkSpeeds
        /\ OneClusterAt800
        /\ NumGe(clusters[1].duration, Minutes(2, 1))
        /\ NumLe(clusters[1].duration, Minutes(21, 10))

\* the walk's result is returned, its rest found from fix 40 to fix 60
C21_Witness ==
    /\ pc = "return"
    /\ file = GpxFile(RestWalkTrack)
    /\ Len(clusters) = 1
    /\ clusters[1].segments[1].startIndex = 40
    /\ clusters[1].segments[1].endIndex = 60

\* the point at 0-based index k is below the threshold
BelowAt(k) == BelowThreshold(points[k + 1])

\* the point at 0-based index k has a speed at or above the threshold
AtOrAboveAt(k) == NumGe(points[k + 1].speed, settings.stopSpeedThreshold)

\* the segment holds exactly the points startIndex..endIndex, all below
\* the threshold
HoldsItsRun(seg) ==
    /\ Len(seg.points) = seg.endIndex - seg.startIndex + 1
    /\ seg.startIndex >= 0 /\ seg.endIndex <= Len(points) - 1
    /\ \A k \in seg.startIndex..seg.endIndex :
           /\ BelowAt(k)
           /\ seg.points[k - seg.startIndex + 1] = points[k + 1]

\* a..b is a run of below-threshold points that cannot be extended
MaximalRun(a, b) ==
    /\ \A k \in a..b : BelowAt(k)
    /\ a > 0 => ~BelowAt(a - 1)
    /\ b < Len(points) - 1 => ~BelowAt(b + 1)

EveryLongRunEmitted ==
    \A a, b \in 0..(Len(points) - 1) :
        (a < b /\ MaximalRun(a, b)) =>
            \E k \in 1..Len(stopSegments) :
                stopSegments[k].startIndex = a /\ stopSegments[k].endIndex = b

NearEachOther(g, j) ==
    \/ WithinClusterDistance(g, j)
    \/ IF g < j THEN WithinClusterTimeGap(g, j) ELSE WithinClusterTimeGap(j, g)

\* C23: membership is decided against the seed only: every member of a
\* cluster other than its seed comes after the seed and meets the distance
\* or the time-gap criterion against the seed, so a segment that meets
\* neither against the seed is not in the cluster even when it meets one
\* against another member
C23_SeedOnlyMembership ==
    ClustererDone =>
        \A c \in 1..Len(clusters) :
            LET seed == clusters[c].indices[1]
            IN  \A k \in 0..(Len(stopSegments) - 1) :
                    (k # seed /\ k \in Range(clusters[c].indices)) =>
                        /\ seed < k
                        /\ (WithinClusterDistance(seed, k) \/ WithinClusterTimeGap(seed, k))

\* a returned cluster that leaves out a later segment lying near one of its
\* members but not near its seed, and that holds two members lying farther
\* apart than clusterDistance and clusterTimeGap
C23_Witness ==
    /\ pc = "return"
    /\ \E c \in 1..Len(clusters) :
           LET seed == clusters[c].indices[1]
               members == Range(clusters[c].indices)
           IN  /\ \E j \in members \ {seed} :
                      \E k \in (0..(Len(stopSegments) - 1)) \ members :
                          /\ j < k
                          /\ NearEachOther(j, k)
                          /\ ~NearEachOther(seed, k)
               /\ \E a, b \in members : ~NearEachOther(a, b)

\* the elevations of the track, one per point, a missing one read as 0
TrackElevations == [k \in 1..Len(points) |-> OrZero(points[k].ele)]

\* v stands at 0-based index q of the ascending-sorted track elevations:
\* at most q elevations are smaller and more than q are not larger
StandsAtSortedIndex(v, q) ==
    /\ \E k \in 1..Len(points) : TrackElevations[k] = v
    /\ Cardinality({ k \in 1..Len(points) : NumLt(TrackElevations[k], v) }) <= q
    /\ Cardinality({ k \in 1..Len(points) : NumLe(TrackElevations[k], v) }) > q

\* floor(N * elevationPercentile / 100)
PercentileIndex ==
    MathFloor(NumDiv(NumMul(Int2Num(Len(points)), settings.elevationPercentile),
                     Int2Num(100)))

ClearsPercentile(c) ==
    \E k \in 1..Len(points) :
        /\ StandsAtSortedIndex(TrackElevations[k], PercentileIndex)
        /\ NumGe(c.avgEle, TrackElevations[k])

ScoredAsStated(c) ==
    /\ c.score = NumDiv(NumAdd(NumAdd(c.durationScore, c.elevationScore),
                               c.prominenceScore), Int2Num(3))
    /\ c.durationScore =
           NumMul(MathMin(NumDiv(c.duration, Int2Num(10)), Int2Num(1)), Int2Num(100))
    /\ c.prominenceScore =
           NumMul(MathMin(NumDiv(c.prominence, Int2Num(50)), Int2Num(1)), Int2Num(100))
    /\ c.elevationScore \in {Int2Num(100), Int2Num(50)}
    /\ c.elevationScore = Int2Num(100) <=> ClearsPercentile(c)

\* C24: for every scored cluster, and every peak of the stored result, the
\* composite score is the mean of the three stored sub-scores, durationScore
\* is min(duration/10, 1) * 100, prominenceScore is min(prominence/50, 1) *
\* 100, and elevationScore is 100 exactly when avgEle is at least the
\* elevation at index floor(N * elevationPercentile / 100) of the sorted
\* track elevations, and 50 otherwise
C24_ScoreFormula ==
    /\ ScorerDone => \A k \in 1..Len(clusters) : ScoredAsStated(clusters[k])
    /\ UploadStored => \A k \in 1..Len(detectedPeaks) : ScoredAsStated(detectedPeaks[k])

\* a returned list with a cluster below the percentile elevation (50) and a
\* cluster whose average elevation is exactly the percentile elevation (100)
C24_Witness ==
    /\ pc = "return"
    /\ \E a, b \in 1..Len(clusters) :
           /\ clusters[a].elevationScore = Int2Num(50)
           /\ NumGt(clusters[a].durationScore, Zero)
           /\ NumLt(clusters[a].durationScore, Int2Num(100))
           /\ clusters[b].elevationScore = Int2Num(100)
           /\ StandsAtSortedIndex(clusters[b].avgEle, PercentileIndex)

\* the point lies within prominenceRadius of the cluster's average position
InRadius(c, p) ==
    NumLe(calculateDistance(c.avgLat, c.avgLon, p.lat, p.lon), settings.prominenceRadius)

\* point and cluster have timestamps and the point's time lies within
\* prominenceTimeWindow minutes of the cluster's start
InTimeWindow(c, p) ==
    /\ p.time # Null /\ c.startTime # Null
    /\ NumLe(MathAbs(NumSub(p.time, c.startTime)),
             NumMul(settings.prominenceTimeWindow, Int2Num(60000)))

\* floor((first member's startIndex + last member's endIndex) / 2)
CentreIndex(c) ==
    (c.segments[1].startIndex + c.segments[Len(c.segments)].endIndex) \div 2

\* the stated neighbors, in track order and each once
StatedNeighbors(c) ==
    SelectSeq(points, LAMBDA p :
        (InRadius(c, p) \/ InTimeWindow(c, p)) /\ p.index # CentreIndex(c))

NeighborSetAsStated(c) ==
    /\ Range(NeighborsOf(c)) = Range(StatedNeighbors(c))
    /\ Len(NeighborsOf(c)) = Len(StatedNeighbors(c))
    /\ \A n \in 1..Len(NeighborsOf(c)) : NeighborsOf(c)[n].index # c.index
    /\ StatedNeighbors(c) # << >> =>
           c.prominence =
               NumSub(c.maxEle,
                      NumDiv(SumSeq(MapSeq(StatedNeighbors(c), LAMBDA p : OrZero(p.ele))),
                             Int2Num(Len(StatedNeighbors(c)))))

\* C25: for every scored cluster the neighbor set holds, each once, exactly
\* the track points within prominenceRadius of the cluster's average
\* position or (point and cluster having timestamps) within
\* prominenceTimeWindow minutes of its start time, without the point at the
\* cluster's centre index; the stored prominence is taken over that set
C25_NeighborSet ==
    ScorerDone => \A k \in 1..Len(clusters) : NeighborSetAsStated(clusters[k])

\* a returned cluster with a neighbor inside both the radius and the time
\* window, a neighbor inside the time window only, a point without <time>
\* outside the radius, and its centre point inside the radius
C25_Witness ==
    /\ pc = "return"
    /\ \E k \in 1..Len(clusters) :
           LET c == clusters[k]
           IN  /\ c.startTime # Null
               /\ InRadius(c, points[c.index + 1])
               /\ \E n \in 1..Len(NeighborsOf(c)) :
                      InRadius(c, NeighborsOf(c)[n]) /\ InTimeWindow(c, NeighborsOf(c)[n])
               /\ \E n \in 1..Len(NeighborsOf(c)) :
                      ~InRadius(c, NeighborsOf(c)[n]) /\ InTimeWindow(c, NeighborsOf(c)[n])
    /\ \E n \in 1..Len(points) : points[n].time = Null

\* the 0-based index at which the contiguous below-threshold run ending at
\* index e starts
RunStart(e) ==
    CHOOSE a \in 0..e :
        /\ \A k \in a..e : BelowAt(k)
        /\ a > 0 => ~BelowAt(a - 1)

\* after i points: Idle before the first point and after a point not below
\* the threshold, InStop with the run ending at the last point otherwise
ScannerState ==
    pc = "scan" =>
        IF i > 0 /\ BelowAt(i - 1)
        THEN /\ currentStop # NoStop
             /\ currentStop.startIndex = RunStart(i - 1)
             /\ currentStop.points = SubSeq(points, RunStart(i - 1) + 1, i)
        ELSE currentStop = NoStop

\* stopSegments after closing the accumulator at endIndex: a run of two or
\* more points is appended, anything else leaves the list as it is
ClosedAt(endIndex) ==
    IF currentStop # NoStop /\ Len(currentStop.points) >= 2
    THEN /\ Len(stopSegments') = Len(stopSegments) + 1
         /\ SubSeq(stopSegments', 1, Len(stopSegments)) = stopSegments
         /\ stopSegments'[Len(stopSegments')].startIndex = currentStop.startIndex
         /\ stopSegments'[Len(stopSegments')].endIndex = endIndex
         /\ stopSegments'[Len(stopSegments')].points = currentStop.points
    ELSE stopSegments' = stopSegments

\* a step of the scan consumes the next point, or, all points consumed,
\* closes the accumulator and ends the scan
ScannerStep ==
    pc = "scan" =>
        /\ points' = points
        /\ \/ /\ i < Len(points) /\ i' = i + 1 /\ pc' = "scan"
              /\ IF BelowAt(i) THEN stopSegments' = stopSegments ELSE ClosedAt(i - 1)
           \/ /\ i = Len(points) /\ i' = i /\ pc' = "cluster"
              /\ ClosedAt(Len(points) - 1)

\* C26: the scan starts Idle; after each point the accumulator is open
\* exactly when that point is below the threshold and then holds the
\* contiguous below-threshold run ending at it, and is empty otherwise;
\* each step consumes the next point; at the end an open accumulator is
\* closed under the same two-point rule; the scan always ends, with every
\* point consumed
C26_ScannerStateMachine ==
    /\ []ScannerState
    /\ [][ScannerStep]_vars
    /\ (pc = "scan") ~> (pc = "cluster" /\ i = Len(points))

\* a finished scan that went from InStop to Idle and back and ended InStop,
\* its open run of two or more points closed as the last segment
C26_Witness ==
    /\ pc = "cluster"
    /\ i = Len(points)
    /\ currentStop # NoStop
    /\ Len(currentStop.points) >= 2
    /\ Len(stopSegments) >= 1
    /\ stopSegments[Len(stopSegments)].endIndex = Len(points) - 1
    /\ BelowAt(0)
    /\ \E k \in 1..(Len(points) - 1) : ~BelowAt(k)

\* the clusterer has run and the ranker has not
BeforeRanking == pc \in {"score", "rank"}

\* the cluster's span from its start to its end, in minutes
SpanMinutes(c) == NumDiv(NumSub(c.endTime, c.startTime), Int2Num(60000))

\* members in ascending original order, the seed first, with the sum of
\* their durations as duration and the first start and last end as times
MembersInOrder(c) ==
    /\ Len(c.indices) = Len(c.segments) /\ Len(c.indices) >= 1
    /\ \A m \in 1..Len(c.indices) : c.segments[m] = stopSegments[c.indices[m] + 1]
    /\ \A m \in 1..(Len(c.indices) - 1) : c.indices[m] < c.indices[m + 1]
    /\ c.duration = NumDiv(MemberMillis(c), Int2Num(60000))
    /\ c.startTime = stopSegments[c.indices[1] + 1].startTime
    /\ c.endTime = stopSegments[c.indices[Len(c.indices)] + 1].endTime

\* C27: before ranking the clusters stand in ascending order of their seed
\* segment, each cluster's members in ascending original order with the
\* seed first; duration is the sum of the members' durations, startTime the
\* first member's startTime and endTime the last member's endTime
C27_ClusterOrderAndTimes ==
    BeforeRanking =>
        /\ \A k \in 1..(Len(clusters) - 1) :
               clusters[k].indices[1] < clusters[k + 1].indices[1]
        /\ \A k \in 1..Len(clusters) : MembersInOrder(clusters[k])

\* two clusters before ranking, one of them with two members and a
\* duration that is not the span from its start to its end
C27_Witness ==
    /\ BeforeRanking
    /\ Len(clusters) >= 2
    /\ \E k \in 1..Len(clusters) :
           /\ Len(clusters[k].indices) >= 2
           /\ clusters[k].duration # SpanMinutes(clusters[k])

\* the representative index is the floor of the mean of the first member's
\* startIndex and the last member's endIndex, lies between the two, and is
\* the index of a point of ps
RepresentativeIn(c, ps) ==
    LET first == c.segments[1].startIndex
        last == c.segments[Len(c.segments)].endIndex
    IN  /\ 2 * c.index <= first + last /\ first + last <= 2 * c.index + 1
        /\ first <= c.index /\ c.index <= last
        /\ 0 <= c.index /\ c.index < Len(ps)
        /\ ps[c.index + 1].index = c.index

\* C28: for every scored cluster, and every peak of the stored result, the
\* representative index is floor((first member's startIndex + last
\* member's endIndex) / 2), lies between those two indices, and is a valid
\* index into the point sequence, so gpxData[peak.index] is a point
C28_RepresentativeIndexValid ==
    /\ ScorerDone => \A k \in 1..Len(clusters) : RepresentativeIn(clusters[k], points)
    /\ UploadStored =>
           \A k \in 1..Len(detectedPeaks) : RepresentativeIn(detectedPeaks[k], gpxData.points)

\* a stored result with a peak of two members whose representative point
\* lies between them, in neither
C28_Witness ==
    /\ UploadStored
    /\ \E k \in 1..Len(detectedPeaks) :
           /\ Len(detectedPeaks[k].segments) >= 2
           /\ \A m \in 1..Len(detectedPeaks[k].segments) :
                  detectedPeaks[k].index \notin
                      (detectedPeaks[k].segments[m].startIndex
                           .. detectedPeaks[k].segments[m].endIndex)

\* the selection holds valid indices of the peak list, none of them twice
SelectionValid ==
    /\ \A k \in 1..Len(selectedPeakIndices) :
           selectedPeakIndices[k] \in 0..(Len(detectedPeaks) - 1)
    /\ \A a, b \in 1..Len(selectedPeakIndices) :
           a # b => selectedPeakIndices[a] # selectedPeakIndices[b]

\* a second toggle of any row undoes the first: the selected set is back
ToggleTwiceRestores ==
    \A idx \in 0..(Len(detectedPeaks) - 1) :
        Range(Toggled(Toggled(selectedPeakIndices, idx), idx)) = Range(selectedPeakIndices)

\* a call of onPeaksDetected passes the peaks selected at that moment, one
\* per selected index
ConfirmPassesSelection ==
    onPeaksDetected' # onPeaksDetected =>
        /\ onPeaksDetected'.called
        /\ Len(onPeaksDetected'.peaks) = Len(selectedPeakIndices)
        /\ \A k \in 1..Len(selectedPeakIndices) :
               onPeaksDetected'.peaks[k] = detectedPeaks[selectedPeakIndices[k] + 1]
        /\ \A n \in 1..Len(detectedPeaks) :
               Cardinality({ k \in 1..Len(onPeaksDetected'.peaks) :
                               onPeaksDetected'.peaks[k] = detectedPeaks[n] })
                   = IF (n - 1) \in Range(selectedPeakIndices) THEN 1 ELSE 0

\* C29: after any sequence of upload, toggle, select-all, deselect-all and
\* "Neue Datei", selectedPeakIndices holds only valid indices of the current
\* detectedPeaks and none twice; toggling an index twice restores the
\* selected set; handleConfirmPeaks passes to onPeaksDetected exactly the
\* selected peaks, each once
C29_SelectionConsistent ==
    /\ [](SelectionValid /\ ToggleTwiceRestores)
    /\ [][ConfirmPassesSelection]_vars

\* onPeaksDetected was called with one peak of two, after the selection
\* was changed by hand, on the second file analysed
C29_Witness ==
    /\ onPeaksDetected.called
    /\ Len(detectedPeaks) = 2
    /\ onPeaksDetected.peaks = << detectedPeaks[2] >>
    /\ selectedPeakIndices = << 1 >>
    /\ runCount = 2

\* a run is in flight: the read or the code after it has not ended
RunInFlight == pc # "idle"

\* loading is true exactly while a run is in flight
LoadingWhileInFlight == loading <=> RunInFlight

\* the step that starts the read has set loading; while loading no file can
\* be chosen, and gpxData, detectedPeaks and selectedPeakIndices change
\* only by the run in flight storing its own points and peaks
LoadingGuardsRun ==
    /\ (pc = "idle" /\ pc' = "reading") => (~loading /\ loading')
    /\ loading =>
           /\ runCount' = runCount /\ file' = file
           /\ onPeaksDetected' = onPeaksDetected
           /\ gpxData' # gpxData =>
                  pc = "reading" /\ gpxData' = GpxOf(parseGPX(file))
           /\ (detectedPeaks' # detectedPeaks \/ selectedPeakIndices' # selectedPeakIndices) =>
                  /\ pc = "return" /\ pc' = "idle"
                  /\ detectedPeaks' = clusters
                  /\ selectedPeakIndices' = [k \in 1..Len(clusters) |-> k - 1]
                  /\ gpxData = GpxOf(parseGPX(file))

\* C30: loading is set by the step that starts the file read and stays set
\* while the run is in flight; it is eventually cleared after every upload,
\* on the success path and on the failure paths; while it is set no second
\* run starts and nothing but the run in flight updates gpxData,
\* detectedPeaks and selectedPeakIndices
C30_LoadingSerialisesRuns ==
    /\ []LoadingWhileInFlight
    /\ [][LoadingGuardsRun]_vars
    /\ (loading ~> (~loading /\ pc = "idle"))

\* a read in flight over the upload form, where a further upload is held
\* back by nothing but the disabled file input
C30_Witness ==
    /\ pc = "reading"
    /\ loading
    /\ gpxData.isNull
    /\ runCount >= 1 /\ runCount < MaxRuns
    /\ file.kind = "gpx"

====
